---- MODULE Spec2Model ----
(***************************************************************************)
(* The group client of sekas (src/src/client/src/group_client.rs): the     *)
(* retry and routing state machine that sends one logical operation to the *)
(* replicas of a group and reacts to the status of every attempt.          *)
(*                                                                         *)
(* One GroupClient is modelled.  A call (invoke_with_opt) is split at its  *)
(* only suspension point, the await of the operation: Call runs the head   *)
(* of invoke_with_opt, Select runs recommend_client and issues the         *)
(* operation, Apply is the answer of the contacted node arriving and the   *)
(* rest of the loop body run on it (apply_status and the deadline check),  *)
(* Return hands the result to the caller.                                  *)
(***************************************************************************)
EXTENDS Integers, Sequences, FiniteSets, TLC

\* ------------------------------------------------------------------ bounds

\* Largest group epoch a server reports.
MaxEpoch == 2
\* Largest raft term a server reports.
MaxTerm == 2
\* Number of calls issued on the client.
MaxCalls == 2

\* ------------------------------------------------------------- Option<T>

None == <<>>
Some(x) == <<x>>
IsSome(o) == o # <<>>
Unwrap(o) == o[1]
\* Option<u64>::unwrap_or_default
UnwrapOrDefault(o) == IF o = <<>> THEN 0 ELSE o[1]

\* ------------------------------------------------------------ descriptors

GroupId == 1
\* The nodes of the cluster.
Nodes == {1, 2, 3}

\* ReplicaDesc { id, node_id }
Replica(id, node) == [id |-> id, node_id |-> node]
\* The replica i lives on node i; replica 4 is a replica that was created on
\* node 2 after replica 2 had been removed from it.
Replicas ==
    {Replica(i, i) : i \in Nodes} \cup {Replica(4, 2)}

\* Byte strings, over a two letter alphabet.
Keys == {<<>>, <<1>>, <<1, 1>>, <<1, 2>>, <<2>>, <<2, 1>>}

\* ShardDesc { id, range: [start, end) }
Shard(id, start, end) == [id |-> id, start |-> start, end |-> end]
ShardsWhole == <<Shard(10, <<>>, <<>>)>>
ShardsSplit == <<Shard(10, <<>>, <<2>>), Shard(11, <<2>>, <<>>)>>

\* GroupDesc { id, epoch, shards, replicas }
GroupDesc(e, reps, shards) == [epoch |-> e, replicas |-> reps, shards |-> shards]

\* The replica lists a server reports: the initial members, and the group
\* after it was moved to node 3.
DescReplicas ==
    { <<Replica(1, 1), Replica(2, 2)>>,
      <<Replica(3, 3)>> }

GroupDescs ==
    { GroupDesc(e, r, s) :
        e \in 1..MaxEpoch, r \in DescReplicas, s \in {ShardsWhole, ShardsSplit} }

\* --------------------------------------------------------------- requests

NoWrite == None
Req(kind, shard, key, deletes, puts, write) ==
    [kind |-> kind, shard_id |-> shard, user_key |-> key,
     deletes |-> deletes, puts |-> puts, write |-> write]

\* The requests issued through GroupClient::request.
Requests ==
    { Req("Get", 10, <<1>>, <<>>, <<>>, NoWrite),
      Req("Scan", 10, <<>>, <<>>, <<>>, NoWrite),
      Req("Write", 10, <<>>, << <<2>> >>, << <<1>> >>, NoWrite),
      Req("MoveReplicas", 0, <<>>, <<>>, <<>>, NoWrite) }

\* InvokeOpt { request, accurate_epoch, ignore_transport_error }
InvokeOpt(req, accurate, ignore) ==
    [request |-> req, accurate_epoch |-> accurate, ignore_transport_error |-> ignore]
InvokeOptDefault == InvokeOpt(None, FALSE, FALSE)

\* The InvokeOpt each public operation builds.
Apis ==
    { "watch_key", "create_shard", "remove_group_replica", "add_replica",
      "add_learner", "transfer_leader", "accept_shard", "split_shard",
      "merge_shard", "acquire_shard", "move_out", "forward" }
OptOf(api) ==
    CASE api \in {"create_shard", "remove_group_replica", "add_replica", "add_learner"}
           -> InvokeOptDefault
      [] api = "watch_key" -> InvokeOpt(None, FALSE, FALSE)
      [] api \in {"transfer_leader", "accept_shard", "split_shard", "merge_shard",
                  "acquire_shard"}
           -> InvokeOpt(None, TRUE, TRUE)
      [] api = "move_out" -> InvokeOpt(None, FALSE, TRUE)
      [] api = "forward" -> InvokeOpt(None, TRUE, FALSE)
RequestOpt(req) == InvokeOpt(Some(req), FALSE, FALSE)

\* ------------------------------------------------- executability predicate

\* The order of byte strings (<[u8] as Ord>): lexicographic, a proper prefix first.
RECURSIVE BytesLess(_, _)
BytesLess(a, b) ==
    IF b = <<>> THEN FALSE
    ELSE IF a = <<>> THEN TRUE
    ELSE IF a[1] # b[1] THEN a[1] < b[1]
    ELSE BytesLess(Tail(a), Tail(b))
BytesLeq(a, b) == a = b \/ BytesLess(a, b)

\* Faulty variant: the end of the range is taken to belong to it.
belong_to_closed(shard, key) ==
    /\ BytesLeq(shard.start, key)
    /\ (shard.end = <<>> \/ BytesLeq(key, shard.end))

\* sekas_schema::shard::belong_to: the range is [start, end), an empty end
\* is unbounded.
belong_to(shard, key) ==
    /\ BytesLeq(shard.start, key)
    /\ (shard.end = <<>> \/ BytesLess(key, shard.end))

\* desc.shards.iter().find(|s| s.id == shard_id)
FindShard(shards, shard_id) ==
    LET hits == {i \in 1..Len(shards) : shards[i].id = shard_id}
    IN  IF hits = {} THEN None
        ELSE Some(shards[CHOOSE i \in hits : \A j \in hits : i <= j])

\* Faulty variant: the shard is looked up by id and its range is not consulted.
is_target_shard_exists_by_id(desc, shard_id, key) ==
    FindShard(desc.shards, shard_id) # None

is_target_shard_exists(desc, shard_id, key) ==
    LET s == FindShard(desc.shards, shard_id)
    IN  IF s = None THEN FALSE ELSE belong_to(Unwrap(s), key)

\* Faulty variant: the puts of the batch are not looked at.
is_all_target_shard_exists_deletes_only(desc, shard_id, deletes, puts) ==
    IF ~(\A i \in 1..Len(deletes) : is_target_shard_exists(desc, shard_id, deletes[i]))
    THEN FALSE
    ELSE TRUE

is_all_target_shard_exists(desc, shard_id, deletes, puts) ==
    IF ~(\A i \in 1..Len(deletes) : is_target_shard_exists(desc, shard_id, deletes[i]))
    THEN FALSE
    ELSE IF ~(\A i \in 1..Len(puts) : is_target_shard_exists(desc, shard_id, puts[i]))
    THEN FALSE
    ELSE TRUE

\* Faulty variant: Scan is not taken for a read.
is_read_only_request_get_only(request) == request.kind = "Get"

is_read_only_request(request) == request.kind \in {"Get", "Scan"}

\* Faulty variant: a Scan is executable when its shard is in the descriptor.
is_executable_scan_by_shard(desc, request) ==
    CASE request.kind = "Get" ->
           is_target_shard_exists(desc, request.shard_id, request.user_key)
      [] request.kind = "Scan" -> FindShard(desc.shards, request.shard_id) # None
      [] request.kind = "Write" ->
           is_all_target_shard_exists(desc, request.shard_id, request.deletes, request.puts)
      [] request.kind = "WriteIntent" /\ request.write # None ->
           is_target_shard_exists(desc, request.shard_id, Unwrap(request.write).key)
      [] request.kind = "CommitIntent" ->
           is_target_shard_exists(desc, request.shard_id, request.user_key)
      [] request.kind = "ClearIntent" ->
           is_target_shard_exists(desc, request.shard_id, request.user_key)
      [] OTHER -> FALSE

is_executable(desc, request) ==
    CASE request.kind = "Get" ->
           is_target_shard_exists(desc, request.shard_id, request.user_key)
      [] request.kind = "Write" ->
           is_all_target_shard_exists(desc, request.shard_id, request.deletes, request.puts)
      [] request.kind = "WriteIntent" /\ request.write # None ->
           is_target_shard_exists(desc, request.shard_id, Unwrap(request.write).key)
      [] request.kind = "CommitIntent" ->
           is_target_shard_exists(desc, request.shard_id, request.user_key)
      [] request.kind = "ClearIntent" ->
           is_target_shard_exists(desc, request.shard_id, request.user_key)
      [] OTHER -> FALSE

\* ------------------------------------------------------- replica ordering

\* replicas.iter().position(|r| r.node_id == node_id): 0 when there is none.
Position(replicas, node_id) ==
    LET hits == {i \in 1..Len(replicas) : replicas[i].node_id = node_id}
    IN  IF hits = {} THEN 0 ELSE CHOOSE i \in hits : \A j \in hits : i <= j

\* slice::swap, on 1-based positions.
Swap(s, i, j) == [k \in 1..Len(s) |-> IF k = i THEN s[j] ELSE IF k = j THEN s[i] ELSE s[k]]

move_node_to_first_element(replicas, node_id) ==
    LET idx == Position(replicas, node_id)
    IN  IF idx # 0 /\ idx # 1 THEN Swap(replicas, 1, idx) ELSE replicas

\* Faulty variant: a leader that is on no node of the list is not saved to it.
move_replica_to_first_element_no_push(replicas, replica) ==
    move_node_to_first_element(replicas, replica.node_id)

\* Faulty variant: the leader is put in front of the list whether or not its
\* node is in it.
move_replica_to_first_element_in_front(replicas, replica) ==
    <<replica>> \o replicas

move_replica_to_first_element(replicas, replica) ==
    LET found == Position(replicas, replica.node_id)
        pushed == IF found # 0 THEN replicas ELSE Append(replicas, replica)
        idx == IF found # 0 THEN found ELSE Len(pushed)
    IN  IF idx # 1 THEN Swap(pushed, 1, idx) ELSE pushed

\* ------------------------------------------------------------------ state

VARIABLES
    \* GroupClient
    timeout,            \* Option<Duration>
    epoch,              \* u64
    leader_state,       \* Option<(replica id, term)>
    replicas,           \* Vec<ReplicaDesc>
    access_node_id,     \* Option<u64>
    next_access_index,  \* usize
    \* collaborators
    unreachable,        \* the nodes whose address or transport cannot be obtained
    \* the call in progress (the locals of invoke_with_opt)
    pc,                 \* "idle", "select", "await", "done", "panicked"
    opt,                \* InvokeOpt
    deadline,           \* Option<Instant>: the Duration it was armed with
    node,               \* Option<u64>: the node the operation was issued to
    ctx,                \* Option<InvokeContext> of the attempt in flight
    result,             \* Option: what the call returns
    \* observation of the call (not program state; the last four are kept
    \* only by the specification that counts the attempts)
    calls,              \* calls returned so far
    last,               \* what the status applied last did (until the next attempt)
    attempts,           \* invocations of the operation in this call
    contacted,          \* nodes the operation was issued to in this call
    latched,            \* an attempt of this call reused the sticky node
    adopted,            \* a reported descriptor was adopted in this call
    selected,           \* nodes recommend_client picked in this call, reached or not
    \* an evaluation of is_executable on its own
    exec_desc,          \* Option<GroupDesc>: the descriptor
    exec_req,           \* Option<Request>: the request
    exec_out,           \* Option<bool>: what is_executable returned
    \* an operation of the MigrateClient
    m_pc,               \* where the operation stands in its loop
    m_api,              \* Option: the operation called
    m_err,              \* Option<Error>: the error handed to retry_state.retry
    m_result,           \* Option: what the operation returns
    m_iter,             \* iterations of the loop begun so far
    \* the stream of a watch_key
    stream,             \* "none", "open" once a call returned it, "closed"
    item                \* Option: the item the consumer got last

client_vars ==
    <<timeout, epoch, leader_state, replicas, access_node_id, next_access_index>>
env_vars == <<unreachable>>
call_vars == <<pc, opt, deadline, node, ctx, result>>
obs_vars == <<calls, last, attempts, contacted, latched, adopted, selected>>
exec_vars == <<exec_desc, exec_req, exec_out>>
mig_vars == <<m_pc, m_api, m_err, m_result, m_iter>>
watch_vars == <<stream, item>>
vars == <<client_vars, env_vars, call_vars, obs_vars, exec_vars, mig_vars, watch_vars>>

\* ------------------------------------------------------------ collaborators

\* RouterGroupState { id, epoch, leader_state, replicas: HashMap<id, ReplicaDesc> }:
\* what Router::find_group may hold for the group when it is asked.
RouterGroupState(e, ls, reps) == [epoch |-> e, leader_state |-> ls, replicas |-> reps]
RouterGroupStates ==
    { RouterGroupState(1, ls, {Replica(1, 1), Replica(2, 2)}) :
        ls \in {None, Some(<<1, 1>>)} }

\* The orders HashMap::into_values may yield.
Orders(S) ==
    {s \in [1..Cardinality(S) -> S] : \A i, j \in 1..Cardinality(S) : s[i] = s[j] => i = j}

\* The durations set_timeout is called with.
Timeouts == {10}

\* The states of the world the client runs in.
Unreachables == {{}, {3}, Nodes}

\* ------------------------------------------------------------ GroupClient

\* The fields apply_group_state and apply_status work on.
Self ==
    [epoch |-> epoch, leader_state |-> leader_state, replicas |-> replicas,
     access_node_id |-> access_node_id, next_access_index |-> next_access_index]

\* GroupClient::lazy
lazy ==
    [epoch |-> 0, leader_state |-> None, replicas |-> <<>>,
     access_node_id |-> None, next_access_index |-> 0]

\* GroupClient::apply_group_state; values is group.replicas.into_values().
apply_group_state(c, group, values) ==
    LET leader ==
            IF group.leader_state = None THEN {}
            ELSE {r \in group.replicas : r.id = Unwrap(group.leader_state)[1]}
    IN  [c EXCEPT
            !.leader_state = group.leader_state,
            !.epoch = group.epoch,
            !.replicas =
                IF leader = {} THEN values
                ELSE move_node_to_first_element(values, (CHOOSE r \in leader : TRUE).node_id)]

\* GroupClient::new
new(group, values) == apply_group_state(lazy, group, values)

\* Faulty variant: a client is taken to exist for every node.
fetch_client_always(node_id) == TRUE

\* GroupClient::fetch_client: whether a NodeClient is obtained for node_id.
\* node_clients caches the clients obtained; the world does not change, so a
\* cached node is one outside unreachable and the cache decides nothing.
fetch_client(node_id) == node_id \notin unreachable

\* Faulty variant: the cursor is let run over the replicas twice.
next_access_node_id_two_rounds(index, reps) ==
    IF index <= 2 * Len(reps)
    THEN IF Len(reps) = 0
         THEN [node_id |-> None, next_access_index |-> index, panic |-> TRUE]
         ELSE [node_id |-> Some(reps[(index % Len(reps)) + 1].node_id),
               next_access_index |-> index + 1, panic |-> FALSE]
    ELSE [node_id |-> None, next_access_index |-> index, panic |-> FALSE]

\* Faulty variant: the cursor is let run one position further.
next_access_node_id_one_more(index, reps) ==
    IF index <= Len(reps) + 1
    THEN IF Len(reps) = 0
         THEN [node_id |-> None, next_access_index |-> index, panic |-> TRUE]
         ELSE [node_id |-> Some(reps[(index % Len(reps)) + 1].node_id),
               next_access_index |-> index + 1, panic |-> FALSE]
    ELSE [node_id |-> None, next_access_index |-> index, panic |-> FALSE]

\* GroupClient::next_access_node_id: the node at the cursor (None: the cursor
\* is exhausted) and the cursor after it; the index into an empty list panics.
next_access_node_id(index, reps) ==
    IF index <= Len(reps)
    THEN IF Len(reps) = 0
         THEN [node_id |-> None, next_access_index |-> index, panic |-> TRUE]
         ELSE [node_id |-> Some(reps[(index % Len(reps)) + 1].node_id),
               next_access_index |-> index + 1, panic |-> FALSE]
    ELSE [node_id |-> None, next_access_index |-> index, panic |-> FALSE]

\* Faulty variant: the node is always taken from the cursor, the sticky node is
\* not looked at.
RECURSIVE recommend_client_cursor_only(_, _, _, _)
recommend_client_cursor_only(access, index, reps, first) ==
    LET next == next_access_node_id(index, reps)
    IN  IF next.panic
        THEN [node |-> None, access_node_id |-> None,
              next_access_index |-> next.next_access_index, sticky |-> FALSE,
              panic |-> TRUE, tried |-> {}]
        ELSE IF next.node_id = None
        THEN [node |-> None, access_node_id |-> None,
              next_access_index |-> next.next_access_index, sticky |-> FALSE,
              panic |-> FALSE, tried |-> {}]
        ELSE IF fetch_client(Unwrap(next.node_id))
        THEN [node |-> next.node_id, access_node_id |-> next.node_id,
              next_access_index |-> next.next_access_index,
              sticky |-> FALSE, panic |-> FALSE,
              tried |-> {Unwrap(next.node_id)}]
        ELSE LET rest == recommend_client_cursor_only(None, next.next_access_index,
                                                      reps, FALSE)
             IN  [rest EXCEPT !.tried = rest.tried \cup {Unwrap(next.node_id)}]

\* GroupClient::recommend_client.  Yields the node chosen (None when the
\* replicas are exhausted), the client fields it leaves behind, whether the
\* node was the sticky one and the nodes it asked fetch_client for.
RECURSIVE recommend_client(_, _, _, _)
recommend_client(access, index, reps, first) ==
    LET next == IF access # None
                THEN [node_id |-> access, next_access_index |-> index, panic |-> FALSE]
                ELSE next_access_node_id(index, reps)
    IN  IF next.panic
        THEN [node |-> None, access_node_id |-> None,
              next_access_index |-> next.next_access_index, sticky |-> FALSE,
              panic |-> TRUE, tried |-> {}]
        ELSE IF next.node_id = None
        THEN [node |-> None, access_node_id |-> None,
              next_access_index |-> next.next_access_index, sticky |-> FALSE,
              panic |-> FALSE, tried |-> {}]
        ELSE IF fetch_client(Unwrap(next.node_id))
        THEN [node |-> next.node_id, access_node_id |-> next.node_id,
              next_access_index |-> next.next_access_index,
              sticky |-> (first /\ access # None), panic |-> FALSE,
              tried |-> {Unwrap(next.node_id)}]
        ELSE LET rest == recommend_client(None, next.next_access_index, reps, FALSE)
             IN  [rest EXCEPT !.tried = rest.tried \cup {Unwrap(next.node_id)}]

\* The node the next attempt goes to from fields c (None: there is none).
NextNode(c) ==
    recommend_client(c.access_node_id, c.next_access_index, c.replicas, TRUE).node

\* Error values.
Error(kind) == [kind |-> kind, desc |-> None]
EpochNotMatch(desc) == [kind |-> "EpochNotMatch", desc |-> Some(desc)]

\* What applying a status yields: Ok(()), Err(e) or a panic, and the fields after.
Recovered(c, what) == [out |-> "Ok", err |-> None, c |-> c, what |-> what]
Surfaced(c, e) == [out |-> "Err", err |-> Some(e), c |-> c, what |-> "surfaced"]
Panicked(c) == [out |-> "Panic", err |-> None, c |-> c, what |-> "panic"]

\* Faulty variant: a NotLeader of the term of the hint is not taken for stale.
apply_not_leader_status_same_term(c, term, leader_desc) ==
    LET cleared == [c EXCEPT !.access_node_id = None]
        stale == IF c.leader_state = None THEN FALSE
                 ELSE Unwrap(c.leader_state)[2] > term
    IN  IF leader_desc = None THEN Recovered(cleared, "no_leader")
        ELSE IF stale THEN Recovered(cleared, "stale_leader")
        ELSE Recovered(
                [cleared EXCEPT
                    !.access_node_id = Some(Unwrap(leader_desc).node_id),
                    !.leader_state = Some(<<Unwrap(leader_desc).id, term>>),
                    !.replicas = move_replica_to_first_element(c.replicas,
                                                              Unwrap(leader_desc))],
                "new_leader")
\* Faulty variant: the node of the new leader is not made the sticky node.
apply_not_leader_status_no_sticky(c, term, leader_desc) ==
    LET cleared == [c EXCEPT !.access_node_id = None]
        stale == IF c.leader_state = None THEN FALSE
                 ELSE Unwrap(c.leader_state)[2] >= term
    IN  IF leader_desc = None THEN Recovered(cleared, "no_leader")
        ELSE IF stale THEN Recovered(cleared, "stale_leader")
        ELSE Recovered(
                [cleared EXCEPT
                    !.leader_state = Some(<<Unwrap(leader_desc).id, term>>),
                    !.replicas = move_replica_to_first_element(c.replicas,
                                                              Unwrap(leader_desc))],
                "new_leader")

\* Faulty variant: the replica of the new leader is left where it is.
apply_not_leader_status_no_move(c, term, leader_desc) ==
    LET cleared == [c EXCEPT !.access_node_id = None]
        stale == IF c.leader_state = None THEN FALSE
                 ELSE Unwrap(c.leader_state)[2] >= term
    IN  IF leader_desc = None THEN Recovered(cleared, "no_leader")
        ELSE IF stale THEN Recovered(cleared, "stale_leader")
        ELSE Recovered(
                [cleared EXCEPT
                    !.access_node_id = Some(Unwrap(leader_desc).node_id),
                    !.leader_state = Some(<<Unwrap(leader_desc).id, term>>)],
                "new_leader")

\* Faulty variant: a stale NotLeader leaves the sticky node set.
apply_not_leader_status_keeps_sticky(c, term, leader_desc) ==
    LET cleared == [c EXCEPT !.access_node_id = None]
        stale == IF c.leader_state = None THEN FALSE
                 ELSE Unwrap(c.leader_state)[2] >= term
    IN  IF leader_desc = None THEN Recovered(cleared, "no_leader")
        ELSE IF stale THEN Recovered(c, "stale_leader")
        ELSE Recovered(
                [cleared EXCEPT
                    !.access_node_id = Some(Unwrap(leader_desc).node_id),
                    !.leader_state = Some(<<Unwrap(leader_desc).id, term>>),
                    !.replicas = move_replica_to_first_element(c.replicas,
                                                              Unwrap(leader_desc))],
                "new_leader")

\* Faulty variant: a NotLeader that names a leader is taken whatever its term.
apply_not_leader_status_any_term(c, term, leader_desc) ==
    LET cleared == [c EXCEPT !.access_node_id = None]
    IN  IF leader_desc = None THEN Recovered(cleared, "no_leader")
        ELSE Recovered(
                [cleared EXCEPT
                    !.access_node_id = Some(Unwrap(leader_desc).node_id),
                    !.leader_state = Some(<<Unwrap(leader_desc).id, term>>),
                    !.replicas = move_replica_to_first_element(c.replicas,
                                                              Unwrap(leader_desc))],
                "new_leader")

\* GroupClient::apply_not_leader_status
apply_not_leader_status(c, term, leader_desc) ==
    LET cleared == [c EXCEPT !.access_node_id = None]
        stale == IF c.leader_state = None THEN FALSE
                 ELSE Unwrap(c.leader_state)[2] >= term
    IN  IF leader_desc = None THEN Recovered(cleared, "no_leader")
        ELSE IF stale THEN Recovered(cleared, "stale_leader")
        ELSE Recovered(
                [cleared EXCEPT
                    !.access_node_id = Some(Unwrap(leader_desc).node_id),
                    !.leader_state = Some(<<Unwrap(leader_desc).id, term>>),
                    !.replicas = move_replica_to_first_element(c.replicas,
                                                              Unwrap(leader_desc))],
                "new_leader")

\* Faulty variant: the epochs are compared before accurate_epoch is looked at.
apply_epoch_not_match_status_epoch_first(c, group_desc, o) ==
    IF group_desc.epoch <= c.epoch THEN Panicked(c)
    ELSE IF o.accurate_epoch THEN Surfaced(c, EpochNotMatch(group_desc))
    ELSE IF (IF o.request = None THEN FALSE
             ELSE ~is_executable(group_desc, Unwrap(o.request)))
    THEN Surfaced(c, EpochNotMatch(group_desc))
    ELSE Recovered(
            [c EXCEPT
                !.replicas = move_node_to_first_element(group_desc.replicas,
                                                        UnwrapOrDefault(c.access_node_id)),
                !.epoch = group_desc.epoch,
                !.next_access_index = 1],
            "adopted")
\* Faulty variant: a descriptor that is not newer is adopted like a newer one.
apply_epoch_not_match_status_any_epoch(c, group_desc, o) ==
    IF o.accurate_epoch THEN Surfaced(c, EpochNotMatch(group_desc))
    ELSE IF (IF o.request = None THEN FALSE
             ELSE ~is_executable(group_desc, Unwrap(o.request)))
    THEN Surfaced(c, EpochNotMatch(group_desc))
    ELSE Recovered(
            [c EXCEPT
                !.replicas = move_node_to_first_element(group_desc.replicas,
                                                        UnwrapOrDefault(c.access_node_id)),
                !.epoch = group_desc.epoch,
                !.next_access_index = 1],
            "adopted")
\* Faulty variant: the replicas are adopted in the order reported.
apply_epoch_not_match_status_no_move(c, group_desc, o) ==
    IF o.accurate_epoch THEN Surfaced(c, EpochNotMatch(group_desc))
    ELSE IF group_desc.epoch <= c.epoch THEN Panicked(c)
    ELSE IF (IF o.request = None THEN FALSE
             ELSE ~is_executable(group_desc, Unwrap(o.request)))
    THEN Surfaced(c, EpochNotMatch(group_desc))
    ELSE Recovered(
            [c EXCEPT
                !.replicas = group_desc.replicas,
                !.epoch = group_desc.epoch,
                !.next_access_index = 1],
            "adopted")

\* Faulty variant: the request is tried against the descriptor before the epochs
\* are compared.
apply_epoch_not_match_status_executable_first(c, group_desc, o) ==
    IF o.accurate_epoch THEN Surfaced(c, EpochNotMatch(group_desc))
    ELSE IF (IF o.request = None THEN FALSE
             ELSE ~is_executable(group_desc, Unwrap(o.request)))
    THEN Surfaced(c, EpochNotMatch(group_desc))
    ELSE IF group_desc.epoch <= c.epoch THEN Panicked(c)
    ELSE Recovered(
            [c EXCEPT
                !.replicas = move_node_to_first_element(group_desc.replicas,
                                                        UnwrapOrDefault(c.access_node_id)),
                !.epoch = group_desc.epoch,
                !.next_access_index = 1],
            "adopted")

\* Faulty variant: a descriptor of the client's own epoch is adopted again
\* instead of being fatal.
apply_epoch_not_match_status_equal_epoch(c, group_desc, o) ==
    IF o.accurate_epoch THEN Surfaced(c, EpochNotMatch(group_desc))
    ELSE IF group_desc.epoch < c.epoch THEN Panicked(c)
    ELSE IF (IF o.request = None THEN FALSE
             ELSE ~is_executable(group_desc, Unwrap(o.request)))
    THEN Surfaced(c, EpochNotMatch(group_desc))
    ELSE Recovered(
            [c EXCEPT
                !.replicas = move_node_to_first_element(group_desc.replicas,
                                                        UnwrapOrDefault(c.access_node_id)),
                !.epoch = group_desc.epoch,
                !.next_access_index = 1],
            "adopted")

\* GroupClient::apply_epoch_not_match_status
apply_epoch_not_match_status(c, group_desc, o) ==
    IF o.accurate_epoch THEN Surfaced(c, EpochNotMatch(group_desc))
    ELSE IF group_desc.epoch <= c.epoch THEN Panicked(c)
    ELSE IF (IF o.request = None THEN FALSE
             ELSE ~is_executable(group_desc, Unwrap(o.request)))
    THEN Surfaced(c, EpochNotMatch(group_desc))
    ELSE Recovered(
            [c EXCEPT
                !.replicas = move_node_to_first_element(group_desc.replicas,
                                                        UnwrapOrDefault(c.access_node_id)),
                !.epoch = group_desc.epoch,
                !.next_access_index = 1],
            "adopted")

\* Faulty variant: the Transport failure of any request is retried.
transport_is_retryable_any_request(o) ==
    \/ o.ignore_transport_error
    \/ o.request # None

\* The arm of apply_status for Error::Transport: whether its guard holds.
transport_is_retryable(o) ==
    \/ o.ignore_transport_error
    \/ (IF o.request = None THEN FALSE ELSE is_read_only_request(Unwrap(o.request)))

\* Faulty variant: a status the classifier does not recognise is retried like a
\* Connect failure.
apply_status_retry_unknown(c, s, o) ==
    CASE s.kind = "GroupNotFound" ->
           Recovered([c EXCEPT !.access_node_id = None], "group_not_found")
      [] s.kind = "NotLeader" -> apply_not_leader_status(c, s.term, s.leader)
      [] s.kind \in {"Connect", "Internal"} ->
           Recovered([c EXCEPT !.access_node_id = None], "connect")
      [] s.kind = "Transport" /\ transport_is_retryable(o) ->
           Recovered([c EXCEPT !.access_node_id = None], "transport")
      [] s.kind = "EpochNotMatch" -> apply_epoch_not_match_status(c, Unwrap(s.desc), o)
      [] OTHER -> Surfaced(c, Error(s.kind))

\* Faulty variant: a Connect failure is returned instead of being recovered.
apply_status_connect_surfaces(c, s, o) ==
    CASE s.kind = "GroupNotFound" ->
           Recovered([c EXCEPT !.access_node_id = None], "group_not_found")
      [] s.kind = "NotLeader" -> apply_not_leader_status(c, s.term, s.leader)
      [] s.kind = "Transport" /\ transport_is_retryable(o) ->
           Recovered([c EXCEPT !.access_node_id = None], "transport")
      [] s.kind = "EpochNotMatch" -> apply_epoch_not_match_status(c, Unwrap(s.desc), o)
      [] OTHER -> Surfaced(c, Error(s.kind))

\* Faulty variant: GroupNotFound also puts the cursor back to the start.
apply_status_group_not_found_rewinds(c, s, o) ==
    CASE s.kind = "GroupNotFound" ->
           Recovered([c EXCEPT !.access_node_id = None, !.next_access_index = 0],
                     "group_not_found")
      [] s.kind = "NotLeader" -> apply_not_leader_status(c, s.term, s.leader)
      [] s.kind = "Connect" ->
           Recovered([c EXCEPT !.access_node_id = None], "connect")
      [] s.kind = "Transport" /\ transport_is_retryable(o) ->
           Recovered([c EXCEPT !.access_node_id = None], "transport")
      [] s.kind = "EpochNotMatch" -> apply_epoch_not_match_status(c, Unwrap(s.desc), o)
      [] OTHER -> Surfaced(c, Error(s.kind))

\* Faulty variant: Connect leaves the sticky node set.
apply_status_connect_keeps_sticky(c, s, o) ==
    CASE s.kind = "GroupNotFound" ->
           Recovered([c EXCEPT !.access_node_id = None], "group_not_found")
      [] s.kind = "NotLeader" -> apply_not_leader_status(c, s.term, s.leader)
      [] s.kind = "Connect" -> Recovered(c, "connect")
      [] s.kind = "Transport" /\ transport_is_retryable(o) ->
           Recovered([c EXCEPT !.access_node_id = None], "transport")
      [] s.kind = "EpochNotMatch" -> apply_epoch_not_match_status(c, Unwrap(s.desc), o)
      [] OTHER -> Surfaced(c, Error(s.kind))

\* GroupClient::apply_status
apply_status(c, s, o) ==
    CASE s.kind = "GroupNotFound" ->
           Recovered([c EXCEPT !.access_node_id = None], "group_not_found")
      [] s.kind = "NotLeader" -> apply_not_leader_status(c, s.term, s.leader)
      [] s.kind = "Connect" ->
           Recovered([c EXCEPT !.access_node_id = None], "connect")
      [] s.kind = "Transport" /\ transport_is_retryable(o) ->
           Recovered([c EXCEPT !.access_node_id = None], "transport")
      [] s.kind = "EpochNotMatch" -> apply_epoch_not_match_status(c, Unwrap(s.desc), o)
      [] OTHER -> Surfaced(c, Error(s.kind))

\* ------------------------------------------------------------- the servers

Status(kind, term, leader, desc) ==
    [kind |-> kind, term |-> term, leader |-> leader, desc |-> desc]
PlainKinds ==
    {"Ok", "GroupNotFound", "Connect", "Transport", "CasFailed", "InvalidArgument",
     "TxnConflict", "Internal"}
\* What a node may answer to an attempt.
Statuses ==
    {Status(k, 0, None, None) : k \in PlainKinds}
    \cup {Status("NotLeader", t, l, None) :
            t \in 1..MaxTerm, l \in {None} \cup {Some(r) : r \in Replicas}}
    \cup {Status("EpochNotMatch", 0, None, Some(d)) : d \in GroupDescs}

\* ----------------------------------------------------------------- actions

NoCall ==
    /\ opt = InvokeOptDefault /\ deadline = None /\ node = None
    /\ ctx = None /\ result = None
NoObs ==
    /\ attempts = 0 /\ contacted = {} /\ latched = FALSE /\ adopted = FALSE
    /\ selected = {}
    /\ last = "none"
\* Nothing is evaluated on its own.
NoExec ==
    /\ exec_desc = None /\ exec_req = None /\ exec_out = None
\* No operation of a MigrateClient is under way.
NoMigrate ==
    /\ m_pc = "idle" /\ m_api = None /\ m_err = None /\ m_result = None /\ m_iter = 0
\* No stream of a watch_key was returned.
NoWatch ==
    /\ stream = "none" /\ item = None

SetSelf(c) ==
    /\ epoch' = c.epoch
    /\ leader_state' = c.leader_state
    /\ replicas' = c.replicas
    /\ access_node_id' = c.access_node_id
    /\ next_access_index' = c.next_access_index

\* A client made by GroupClient::lazy or GroupClient::new, in some world.
Init ==
    /\ unreachable \in Unreachables
    /\ \E c \in {lazy} \cup
                {new(g, v) : g \in RouterGroupStates,
                             v \in Orders({Replica(1, 1), Replica(2, 2)})} :
            /\ epoch = c.epoch
            /\ leader_state = c.leader_state
            /\ replicas = c.replicas
            /\ access_node_id = c.access_node_id
            /\ next_access_index = c.next_access_index
    /\ timeout = None
    /\ pc = "idle"
    /\ calls = 0
    /\ NoCall
    /\ NoObs
    /\ NoExec
    /\ NoMigrate
    /\ NoWatch

\* GroupClient::set_timeout
set_timeout(d) ==
    /\ pc = "idle"
    /\ timeout' = Some(d)
    /\ UNCHANGED <<epoch, leader_state, replicas, access_node_id, next_access_index,
                   env_vars, call_vars, obs_vars, exec_vars, mig_vars, watch_vars>>

\* GroupClient::set_timeout_opt
set_timeout_opt(t) ==
    /\ pc = "idle"
    /\ timeout' = t
    /\ UNCHANGED <<epoch, leader_state, replicas, access_node_id, next_access_index,
                   env_vars, call_vars, obs_vars, exec_vars, mig_vars, watch_vars>>

\* Faulty variant: the call goes on unloaded when the Router has no state.
initial_group_state_ignore_absent(c, found, values) ==
    IF found = None THEN Some(c) ELSE Some(apply_group_state(c, Unwrap(found), values))

\* GroupClient::initial_group_state: found is what Router::find_group yields,
\* values the order of its replicas.  Yields the fields, or None on an error.
initial_group_state(c, found, values) ==
    IF found = None THEN None ELSE Some(apply_group_state(c, Unwrap(found), values))

\* Faulty variant: the cursor of a call starts at 1.
Call_cursor_one(o, found, values) ==
    /\ pc = "idle"
    /\ calls < MaxCalls
    /\ opt' = o
    /\ LET loaded == IF epoch = 0 THEN initial_group_state(Self, found, values)
                     ELSE Some(Self)
       IN  IF loaded = None
           THEN /\ pc' = "done"
                /\ result' = Some(Error("GroupNotAccessable"))
                /\ UNCHANGED <<client_vars, deadline>>
           ELSE /\ SetSelf([Unwrap(loaded) EXCEPT !.next_access_index = 1])
                /\ deadline' = timeout
                /\ timeout' = None
                /\ pc' = "select"
                /\ UNCHANGED result
    /\ UNCHANGED <<env_vars, node, ctx, calls, attempts, contacted, latched, adopted,
                   selected, last, exec_vars, mig_vars, watch_vars>>

\* The head of invoke_with_opt, up to the loop: the lazy load of the group state,
\* the reset of the cursor and the take of the timeout.
Call(o, found, values) ==
    /\ pc = "idle"
    /\ calls < MaxCalls
    /\ opt' = o
    /\ LET loaded == IF epoch = 0 THEN initial_group_state(Self, found, values)
                     ELSE Some(Self)
       IN  IF loaded = None
           THEN /\ pc' = "done"
                /\ result' = Some(Error("GroupNotAccessable"))
                /\ UNCHANGED <<client_vars, deadline>>
           ELSE /\ SetSelf([Unwrap(loaded) EXCEPT !.next_access_index = 0])
                /\ deadline' = timeout
                /\ timeout' = None
                /\ pc' = "select"
                /\ UNCHANGED result
    /\ UNCHANGED <<env_vars, node, ctx, calls, attempts, contacted, latched, adopted,
                   selected, last, exec_vars, mig_vars, watch_vars>>

\* The calls of the public operations: what the Router holds is read when the
\* call is made.
Invoke(o) ==
    \E found \in (IF epoch # 0 THEN {None}
                 ELSE {None} \cup {Some(g) : g \in RouterGroupStates}) :
        \E values \in (IF found = None THEN {<<>>} ELSE Orders(Unwrap(found).replicas)) :
            Call(o, found, values)

\* The loop condition of invoke_with_opt (recommend_client) and, when it yields
\* a node, the issue of the operation with its InvokeContext.  count says that
\* the attempts are counted.
Select(count) ==
    /\ pc = "select"
    /\ LET r == recommend_client(access_node_id, next_access_index, replicas, TRUE)
       IN  /\ access_node_id' = r.access_node_id
           /\ next_access_index' = r.next_access_index
           /\ IF r.panic
              THEN /\ pc' = "panicked"
                   /\ UNCHANGED <<node, ctx, result, attempts, contacted, latched>>
              ELSE IF r.node = None
              THEN /\ pc' = "done"
                   /\ result' = Some(Error("GroupNotAccessable"))
                   /\ UNCHANGED <<node, ctx, attempts, contacted, latched>>
              ELSE /\ pc' = "await"
                   /\ node' = r.node
                   /\ ctx' = Some([group_id |-> GroupId, epoch |-> epoch,
                                   timeout |-> timeout])
                   /\ attempts' = (IF count THEN attempts + 1 ELSE attempts)
                   /\ contacted' =
                        (IF count THEN contacted \cup {Unwrap(r.node)} ELSE contacted)
                   /\ latched' = (IF count THEN latched \/ r.sticky ELSE latched)
                   /\ UNCHANGED result
           /\ selected' = (IF count THEN selected \cup r.tried ELSE selected)
    /\ last' = "none"
    /\ UNCHANGED <<timeout, epoch, leader_state, replicas, env_vars, opt, deadline,
                   calls, adopted, exec_vars, mig_vars, watch_vars>>

\* Faulty variant: the deadline is not looked at after a recovered status.
LoopBody_no_deadline(c, s, o, armed, late) ==
    IF s.kind = "Ok"
    THEN [c |-> c, pc |-> "done", result |-> Some(Error("Ok")), what |-> "ok"]
    ELSE LET r == apply_status(c, s, o)
         IN  CASE r.out = "Panic" ->
                    [c |-> r.c, pc |-> "panicked", result |-> None, what |-> r.what]
               [] r.out = "Err" ->
                    [c |-> r.c, pc |-> "done", result |-> r.err, what |-> r.what]
               [] OTHER ->
                    [c |-> r.c, pc |-> "select", result |-> None, what |-> r.what]

\* The rest of the loop body of invoke_with_opt once the operation has
\* answered s: the match on the answer (apply_status on an error) and the check
\* of the deadline; late says that the deadline has passed by then.  Yields the
\* fields of the client, where the call stands and what it returns.
LoopBody(c, s, o, armed, late) ==
    IF s.kind = "Ok"
    THEN [c |-> c, pc |-> "done", result |-> Some(Error("Ok")), what |-> "ok"]
    ELSE LET r == apply_status(c, s, o)
         IN  CASE r.out = "Panic" ->
                    [c |-> r.c, pc |-> "panicked", result |-> None, what |-> r.what]
               [] r.out = "Err" ->
                    [c |-> r.c, pc |-> "done", result |-> r.err, what |-> r.what]
               [] r.out = "Ok" /\ armed /\ late ->
                    [c |-> r.c, pc |-> "done",
                     result |-> Some(Error("DeadlineExceeded")), what |-> r.what]
               [] OTHER ->
                    [c |-> r.c, pc |-> "select", result |-> None, what |-> r.what]

\* LoopBody on the client as it stands.
Outcome(s, late) == LoopBody(Self, s, opt, deadline # None, late)

\* The contacted node answers s and the loop body runs on it.
Apply(s, late, count) ==
    /\ pc = "await"
    /\ LET r == Outcome(s, late)
       IN  /\ SetSelf(r.c)
           /\ pc' = r.pc
           /\ result' = r.result
           /\ last' = r.what
           /\ adopted' = (IF count THEN adopted \/ r.what = "adopted" ELSE adopted)
    /\ node' = None
    /\ ctx' = None
    /\ UNCHANGED <<timeout, env_vars, opt, deadline, calls, attempts, contacted,
                   latched, selected, exec_vars, mig_vars, watch_vars>>

\* Whether the deadline has passed when an answer arrives.
Lates == IF deadline = None THEN {FALSE} ELSE BOOLEAN

\* The call returns to its caller, which may make the next one.
Return ==
    /\ pc = "done"
    /\ pc' = "idle"
    /\ calls' = calls + 1
    /\ opt' = InvokeOptDefault
    /\ deadline' = None
    /\ node' = None
    /\ ctx' = None
    /\ result' = None
    /\ attempts' = 0
    /\ contacted' = {}
    /\ latched' = FALSE
    /\ adopted' = FALSE
    /\ selected' = {}
    /\ last' = "none"
    /\ UNCHANGED <<client_vars, env_vars, exec_vars, mig_vars, watch_vars>>

Next ==
    \/ \E d \in Timeouts : set_timeout(d)
    \/ \E t \in {None} \cup {Some(d) : d \in Timeouts} : set_timeout_opt(t)
    \/ \E r \in Requests : Invoke(RequestOpt(r))
    \/ \E a \in Apis : Invoke(OptOf(a))
    \/ Select(FALSE)
    \/ \E s \in Statuses, late \in Lates : Apply(s, late, FALSE)
    \/ Return

Spec == Init /\ [][Next]_vars

\* The same client with the attempts of each call counted, in the world where
\* every node is reachable and with no timeout armed.
InitCount == Init /\ unreachable = {}

NextCount ==
    \/ \E r \in Requests : Invoke(RequestOpt(r))
    \/ \E a \in Apis : Invoke(OptOf(a))
    \/ Select(TRUE)
    \/ \E s \in Statuses : Apply(s, FALSE, TRUE)
    \/ Return

SpecCount == InitCount /\ [][NextCount]_vars

\* A client made by GroupClient::new from the state of a group of one or of two
\* replicas, in some world, with the nodes picked in each call recorded.
RouterGroupStatesSel ==
    RouterGroupStates \cup {RouterGroupState(1, None, {Replica(3, 3)})}
InitSel ==
    /\ unreachable \in Unreachables
    /\ \E g \in RouterGroupStatesSel : \E v \in Orders(g.replicas) :
            LET c == new(g, v)
            IN  /\ epoch = c.epoch
                /\ leader_state = c.leader_state
                /\ replicas = c.replicas
                /\ access_node_id = c.access_node_id
                /\ next_access_index = c.next_access_index
    /\ timeout = None
    /\ pc = "idle"
    /\ calls = 0
    /\ NoCall
    /\ NoObs
    /\ NoExec
    /\ NoMigrate
    /\ NoWatch

SpecSel == InitSel /\ [][NextCount]_vars

\* The client of Init, lazy or loaded, in any world, with the attempts counted.
SpecFirst == Init /\ [][NextCount]_vars

\* The same client where a server may report a descriptor that lists no
\* replica, in the world where every node is reachable.
EmptyDescs == {GroupDesc(e, <<>>, ShardsWhole) : e \in 1..MaxEpoch}

NextEmpty ==
    \/ \E r \in Requests : Invoke(RequestOpt(r))
    \/ Select(FALSE)
    \/ \E s \in Statuses \cup {Status("EpochNotMatch", 0, None, Some(d)) : d \in EmptyDescs} :
            Apply(s, FALSE, FALSE)
    \/ Return

SpecEmpty == InitCount /\ [][NextEmpty]_vars

\* The client of Spec where a server may also report a descriptor that lists no
\* replica, under the scheduling of a call: the loop of invoke_with_opt goes on
\* to its next selection, and the operation of every attempt returns.
EmptyStatuses == {Status("EpochNotMatch", 0, None, Some(d)) : d \in EmptyDescs}
Answered == \E s \in Statuses \cup EmptyStatuses, late \in Lates : Apply(s, late, FALSE)
NextLive ==
    \/ Next
    \/ \E s \in EmptyStatuses, late \in Lates : Apply(s, late, FALSE)
Fairness == WF_vars(Select(FALSE)) /\ WF_vars(Answered)
SpecLive == Init /\ [][NextLive]_vars /\ Fairness

\* ------------------------------------------- is_executable, on its own

\* The shard lists of the descriptors is_executable is given: none, one shard
\* over all keys, a split shard, another shard only, the shard of the request
\* with a start of its own behind another shard, and with no end.
ExecShards ==
    { <<>>, ShardsWhole, ShardsSplit,
      <<Shard(11, <<>>, <<>>)>>,
      <<Shard(11, <<>>, <<1>>), Shard(10, <<1>>, <<2>>)>>,
      <<Shard(11, <<>>, <<1>>), Shard(10, <<1>>, <<>>)>> }
ExecDescs == {GroupDesc(1, <<Replica(1, 1)>>, sh) : sh \in ExecShards}
\* The keys of the deletes and of the puts of a Write.
KeyLists ==
    {<<>>} \cup {<<k>> : k \in Keys}
    \cup {<<j, k>> : j, k \in {<<>>, <<1>>, <<2>>}}
\* write_intent_request::Write::{Delete, Put}
WriteOf(op, key) == Some([op |-> op, key |-> key])
ExecRequests ==
    {Req(kind, sid, k, <<>>, <<>>, NoWrite) :
        kind \in {"Get", "CommitIntent", "ClearIntent"}, sid \in {10, 12}, k \in Keys}
    \cup {Req("Scan", sid, <<>>, <<>>, <<>>, NoWrite) : sid \in {10, 12}}
    \cup {Req("Write", sid, <<>>, ds, ps, NoWrite) :
            sid \in {10, 12}, ds \in KeyLists, ps \in KeyLists}
    \cup {Req("WriteIntent", sid, <<>>, <<>>, <<>>, w) :
            sid \in {10, 12},
            w \in {NoWrite} \cup {WriteOf(op, k) : op \in {"Delete", "Put"}, k \in Keys}}
    \cup {Req("MoveReplicas", 0, <<>>, <<>>, <<>>, NoWrite)}

InitExec ==
    /\ unreachable = {}
    /\ epoch = lazy.epoch
    /\ leader_state = lazy.leader_state
    /\ replicas = lazy.replicas
    /\ access_node_id = lazy.access_node_id
    /\ next_access_index = lazy.next_access_index
    /\ timeout = None
    /\ pc = "idle"
    /\ calls = 0
    /\ NoCall
    /\ NoObs
    /\ exec_desc \in {Some(d) : d \in ExecDescs}
    /\ exec_req \in {Some(r) : r \in ExecRequests}
    /\ exec_out = None
    /\ NoMigrate
    /\ NoWatch

\* Faulty variant: the answer is given for a loaded client only.
Evaluate_when_loaded ==
    /\ exec_out = None
    /\ exec_desc # None
    /\ exec_req # None
    /\ exec_out' = Some(epoch # 0 /\ leader_state # None
                        /\ is_executable(Unwrap(exec_desc), Unwrap(exec_req)))
    /\ UNCHANGED <<client_vars, env_vars, call_vars, obs_vars, exec_desc, exec_req,
                   mig_vars, watch_vars>>

\* is_executable is applied to the descriptor and the request.
Evaluate ==
    /\ exec_out = None
    /\ exec_desc # None
    /\ exec_req # None
    /\ exec_out' = Some(is_executable(Unwrap(exec_desc), Unwrap(exec_req)))
    /\ UNCHANGED <<client_vars, env_vars, call_vars, obs_vars, exec_desc, exec_req,
                   mig_vars, watch_vars>>

NextExec == Evaluate

SpecExec == InitExec /\ [][NextExec]_vars

\* is_executable applied at any moment of the life of a client: a descriptor
\* and a request are given, and the client makes its calls before and after.
PureDescs == {GroupDesc(MaxEpoch, <<Replica(3, 3)>>, sh) : sh \in {ShardsWhole, ShardsSplit}}
PureRequests == {r \in Requests : r.kind \in {"Get", "Write"}}
InitPure ==
    /\ unreachable = {}
    /\ \E c \in {lazy} \cup
                {new(g, v) : g \in RouterGroupStates,
                             v \in Orders({Replica(1, 1), Replica(2, 2)})} :
            /\ epoch = c.epoch
            /\ leader_state = c.leader_state
            /\ replicas = c.replicas
            /\ access_node_id = c.access_node_id
            /\ next_access_index = c.next_access_index
    /\ timeout = None
    /\ pc = "idle"
    /\ calls = 0
    /\ NoCall
    /\ NoObs
    /\ exec_desc \in {Some(d) : d \in PureDescs}
    /\ exec_req \in {Some(r) : r \in PureRequests}
    /\ exec_out = None
    /\ NoMigrate
    /\ NoWatch

NextPure ==
    \/ \E r \in Requests : Invoke(RequestOpt(r))
    \/ Select(FALSE)
    \/ \E s \in Statuses : Apply(s, FALSE, FALSE)
    \/ Return
    \/ Evaluate

SpecPure == InitPure /\ [][NextPure]_vars

\* ------------------------------------------------------- response decoding

\* GroupResponse { response: Option<GroupResponseUnion>, error: Option<Error> },
\* where GroupResponseUnion { response: Option<Response> }.
GroupResponse(response, error) == [response |-> response, error |-> error]

\* The typed responses of the requests.
Responses == {"GetResponse", "WriteResponse"}

\* The errors a server embeds in a GroupResponse.
EmbeddedErrors ==
    {Status(k, 0, None, None) :
        k \in {"GroupNotFound", "CasFailed", "InvalidArgument", "TxnConflict"}}
    \cup {Status("NotLeader", t, l, None) :
            t \in 1..MaxTerm, l \in {None} \cup {Some(r) : r \in Replicas}}
    \cup {Status("EpochNotMatch", 0, None, Some(d)) : d \in GroupDescs}

\* The envelopes a node may answer a group request with.
GroupResponses ==
    {GroupResponse(r, e) :
        r \in {None, Some(None)} \cup {Some(Some(t)) : t \in Responses},
        e \in {None} \cup {Some(err) : err \in EmbeddedErrors}}

\* tonic::Status
TonicStatus(code, message, details) ==
    [code |-> code, message |-> message, details |-> details]

\* prost::Message::encode_to_vec of an embedded error: its bytes.
encode_to_vec(err) == <<"Error", err.kind, err.term, err.leader, err.desc>>

\* Error::from(tonic::Status), for the statuses group_response makes: the
\* details of an Unknown status are decoded back into the error they encode.
ErrorFrom(status) ==
    CASE status.code = "Internal" -> Status("Internal", 0, None, None)
      [] status.code = "Unknown" /\ Len(status.details) = 5
                                 /\ status.details[1] = "Error" ->
           Status(status.details[2], status.details[3], status.details[4],
                  status.details[5])
      [] OTHER -> Status("UnknownResponse", 0, None, None)

\* What group_response yields: Ok(resp) or Err(status).
DecodedOk(resp) == [ok |-> TRUE, response |-> Some(resp), status |-> None]
DecodedErr(status) == [ok |-> FALSE, response |-> None, status |-> Some(status)]

\* Faulty variant: an embedded error is not carried in the status.
group_response_drops_error(resp) ==
    IF resp.response # None /\ Unwrap(resp.response) # None
    THEN DecodedOk(Unwrap(Unwrap(resp.response)))
    ELSE DecodedErr(TonicStatus("Internal",
                                "Both response and error are None in GroupResponse",
                                <<>>))

\* GroupClient::group_response
group_response(resp) ==
    IF resp.response # None /\ Unwrap(resp.response) # None
    THEN DecodedOk(Unwrap(Unwrap(resp.response)))
    ELSE IF resp.error # None
    THEN DecodedErr(TonicStatus("Unknown", "response", encode_to_vec(Unwrap(resp.error))))
    ELSE DecodedErr(TonicStatus("Internal",
                                "Both response and error are None in GroupResponse",
                                <<>>))

\* What the op of request() yields for the envelope the node answered with:
\* unary_group_request(..).await.and_then(Self::group_response), as the loop
\* of invoke_with_opt sees it (an error goes through Error::from).
Answer(resp) ==
    LET d == group_response(resp)
    IN  IF d.ok THEN Status("Ok", 0, None, None) ELSE ErrorFrom(Unwrap(d.status))

\* The contacted node answers a request with the envelope resp.
Reply(resp, late) == Apply(Answer(resp), late, FALSE)

\* The statuses the RPC itself may fail with.
RpcStatuses == {Status(k, 0, None, None) : k \in {"Connect", "Transport"}}

\* A client on which request() is called, the answers being envelopes.
NextDecode ==
    \/ \E d \in Timeouts : set_timeout(d)
    \/ \E r \in Requests : Invoke(RequestOpt(r))
    \/ Select(FALSE)
    \/ \E resp \in GroupResponses, late \in Lates : Reply(resp, late)
    \/ \E s \in RpcStatuses, late \in Lates : Apply(s, late, FALSE)
    \/ Return

SpecDecode == Init /\ [][NextDecode]_vars

\* -------------------------------------------------------------- watch_key

\* What the stream of a group_request may yield: Ok(GroupResponse) or
\* Err(tonic::Status).
StreamOk(resp) == [ok |-> TRUE, envelope |-> Some(resp), status |-> None]
StreamErr(status) == [ok |-> FALSE, envelope |-> None, status |-> Some(status)]
StreamItems ==
    {StreamOk(GroupResponse(r, e)) :
        r \in {None, Some(Some("WatchKeyResponse")), Some(Some("GetResponse"))},
        e \in {None, Some(Status("NotLeader", 1, Some(Replica(2, 2)), None)),
               Some(Status("EpochNotMatch", 0, None,
                           Some(GroupDesc(2, <<Replica(3, 3)>>, ShardsWhole))))}}
    \cup {StreamErr(TonicStatus(code, "stream", <<>>)) : code \in {"Unavailable", "Internal"}}

\* Status::from(Error::Internal(..)) of the item that is no WatchKeyResponse.
WatchKeyRequired == TonicStatus("Internal", "WatchKeyResponse is required", <<>>)

\* The two and_then of the stream watch_key returns, applied to an item: what
\* the consumer gets.
Deliver(x) ==
    IF ~x.ok THEN DecodedErr(Unwrap(x.status))
    ELSE LET d == group_response(Unwrap(x.envelope))
         IN  IF ~d.ok THEN d
             ELSE IF Unwrap(d.response) = "WatchKeyResponse" THEN d
             ELSE DecodedErr(WatchKeyRequired)

\* The call of watch_key returns to its caller, with the stream when it
\* returned Ok.
WatchReturn ==
    /\ pc = "done"
    /\ stream' = (IF result = Some(Error("Ok")) THEN "open" ELSE stream)
    /\ item' = (IF result = Some(Error("Ok")) THEN None ELSE item)
    /\ pc' = "idle"
    /\ calls' = calls + 1
    /\ opt' = InvokeOptDefault
    /\ deadline' = None
    /\ node' = None
    /\ ctx' = None
    /\ result' = None
    /\ attempts' = 0
    /\ contacted' = {}
    /\ latched' = FALSE
    /\ adopted' = FALSE
    /\ selected' = {}
    /\ last' = "none"
    /\ UNCHANGED <<client_vars, env_vars, exec_vars, mig_vars>>

\* Faulty variant: an error on the stream is classified like the error of an
\* attempt.
Poll_classified(x) ==
    /\ stream = "open"
    /\ pc = "idle"
    /\ item' = Some(Deliver(x))
    /\ IF Deliver(x).ok THEN UNCHANGED <<epoch, leader_state, replicas, access_node_id,
                                         next_access_index>>
       ELSE SetSelf(apply_status(Self, ErrorFrom(Unwrap(Deliver(x).status)),
                                 OptOf("watch_key")).c)
    /\ UNCHANGED <<timeout, env_vars, call_vars, obs_vars, exec_vars, mig_vars, stream>>

\* The consumer polls the stream and gets its next item.
Poll(x) ==
    /\ stream = "open"
    /\ pc = "idle"
    /\ item' = Some(Deliver(x))
    /\ UNCHANGED <<client_vars, env_vars, call_vars, obs_vars, exec_vars, mig_vars, stream>>

\* The stream ends.
Close ==
    /\ stream = "open"
    /\ pc = "idle"
    /\ stream' = "closed"
    /\ item' = None
    /\ UNCHANGED <<client_vars, env_vars, call_vars, obs_vars, exec_vars, mig_vars>>

\* A client on which watch_key is called, and the consumer of its streams.
NextWatch ==
    \/ \E d \in Timeouts : set_timeout(d)
    \/ Invoke(OptOf("watch_key"))
    \/ Select(FALSE)
    \/ \E s \in Statuses, late \in Lates : Apply(s, late, FALSE)
    \/ WatchReturn
    \/ \E x \in StreamItems : Poll(x)
    \/ Close

SpecWatch == Init /\ [][NextWatch]_vars

\* ------------------------------------------------------------ MigrateClient

\* The iterations the loop of an operation is let run.
MaxIters == 2

\* The operations of the MigrateClient.
MigrateApis == {"setup_migration", "commit_migration", "pull_shard_chunk", "forward"}

\* The InvokeOpt of the operation of the GroupClient an iteration awaits:
\* GroupClient::forward builds its own; setup_migration and commit_migration
\* go through invoke_with_opt with options of their own, whatever they are.
MigrateOpts(api) ==
    IF api = "forward" THEN {OptOf("forward")}
    ELSE {InvokeOpt(None, accurate, ignore) : accurate, ignore \in BOOLEAN}

\* What ShardClient::pull may return.
PullResults ==
    {Error(k) : k \in {"Ok", "GroupNotAccessable", "Transport", "Internal"}}
    \cup {EpochNotMatch(d) : d \in GroupDescs}

\* What retry_state.retry(err) may give when it does not accept err.
RetryErrors(err) == {err, Error("DeadlineExceeded")}

\* An operation of the MigrateClient is called: RetryState::new(None).
Migrate(api) ==
    /\ m_pc = "idle"
    /\ m_pc' = "loop"
    /\ m_api' = Some(api)
    /\ m_err' = None
    /\ m_result' = None
    /\ m_iter' = 0
    /\ UNCHANGED <<client_vars, env_vars, call_vars, obs_vars, exec_vars, watch_vars>>

\* Faulty variant: the client of the iteration before is kept.
group_client_kept ==
    /\ m_pc = "loop"
    /\ m_api # Some("pull_shard_chunk")
    /\ IF m_iter = 0 THEN SetSelf(lazy) /\ timeout' = None ELSE UNCHANGED client_vars
    /\ m_pc' = "call"
    /\ m_iter' = m_iter + 1
    /\ UNCHANGED <<env_vars, call_vars, obs_vars, exec_vars, watch_vars, m_api, m_err, m_result>>

\* MigrateClient::group_client at the head of an iteration: GroupClient::lazy.
group_client ==
    /\ m_pc = "loop"
    /\ m_api # Some("pull_shard_chunk")
    /\ SetSelf(lazy)
    /\ timeout' = None
    /\ m_pc' = "call"
    /\ m_iter' = m_iter + 1
    /\ UNCHANGED <<env_vars, call_vars, obs_vars, exec_vars, watch_vars, m_api, m_err, m_result>>

\* The iteration awaits the operation of its client: invoke_with_opt is entered.
MigrateInvoke ==
    /\ m_pc = "call"
    /\ \E o \in MigrateOpts(Unwrap(m_api)) : Invoke(o)

\* An iteration of pull_shard_chunk: ShardClient::new and the pull on it.
pull(res) ==
    /\ m_pc = "loop"
    /\ m_api = Some("pull_shard_chunk")
    /\ m_pc' = "call"
    /\ m_iter' = m_iter + 1
    /\ pc' = "done"
    /\ result' = Some(res)
    /\ UNCHANGED <<client_vars, env_vars, opt, deadline, node, ctx, obs_vars, exec_vars,
                   watch_vars,
                   m_api, m_err, m_result>>

\* Faulty variant: setup_migration has the Ok arm only.
ReturnedAtOnce_ok_only(api, res) == res = Error("Ok")
\* Faulty variant: every loop has the EpochNotMatch arm.
ReturnedAtOnce_epoch_everywhere(api, res) ==
    \/ res = Error("Ok")
    \/ res.kind = "EpochNotMatch"

\* The arms a loop has for what its client returned, which end the operation;
\* every loop has the Ok arm, setup_migration the EpochNotMatch arm as well.
ReturnedAtOnce(api, res) ==
    \/ res = Error("Ok")
    \/ api = "setup_migration" /\ res.kind = "EpochNotMatch"

\* The match of a loop on what its client returned.
MigrateMatch ==
    /\ m_pc = "call"
    /\ pc = "done"
    /\ IF ReturnedAtOnce(Unwrap(m_api), Unwrap(result))
       THEN /\ m_pc' = "returned"
            /\ m_result' = result
            /\ UNCHANGED m_err
       ELSE /\ m_pc' = "retry"
            /\ m_err' = result
            /\ UNCHANGED m_result
    /\ pc' = "idle"
    /\ opt' = InvokeOptDefault
    /\ deadline' = None
    /\ node' = None
    /\ ctx' = None
    /\ result' = None
    /\ last' = "none"
    /\ UNCHANGED <<client_vars, env_vars, calls, attempts, contacted, latched, adopted,
                   selected, exec_vars, watch_vars, m_api, m_iter>>

\* retry_state.retry(err).await?: the RetryState accepts the error, and the loop
\* runs again after the backoff, or it gives an error, which `?` returns.
retry(accept) ==
    /\ m_pc = "retry"
    /\ IF accept
       THEN /\ m_iter < MaxIters
            /\ m_pc' = "loop"
            /\ UNCHANGED m_result
       ELSE /\ m_pc' = "returned"
            /\ \E e \in RetryErrors(Unwrap(m_err)) : m_result' = Some(e)
    /\ m_err' = None
    /\ UNCHANGED <<client_vars, env_vars, call_vars, obs_vars, exec_vars, watch_vars,
                   m_api, m_iter>>

\* A MigrateClient, which holds no GroupClient between its operations.
InitMigrate ==
    /\ unreachable \in Unreachables
    /\ epoch = lazy.epoch
    /\ leader_state = lazy.leader_state
    /\ replicas = lazy.replicas
    /\ access_node_id = lazy.access_node_id
    /\ next_access_index = lazy.next_access_index
    /\ timeout = None
    /\ pc = "idle"
    /\ calls = 0
    /\ NoCall
    /\ NoObs
    /\ NoExec
    /\ NoMigrate
    /\ NoWatch

NextMigrate ==
    \/ \E api \in MigrateApis : Migrate(api)
    \/ group_client
    \/ MigrateInvoke
    \/ \E res \in PullResults : pull(res)
    \/ Select(FALSE)
    \/ \E s \in Statuses : Apply(s, FALSE, FALSE)
    \/ MigrateMatch
    \/ \E accept \in BOOLEAN : retry(accept)

SpecMigrate == InitMigrate /\ [][NextMigrate]_vars

\* ------------------------------------------------------------------ claims

\* The answers the claims speak of.
StTransport == Status("Transport", 0, None, None)
StNotLeader(term, leader) == Status("NotLeader", term, leader, None)
StEpochNotMatch(desc) == Status("EpochNotMatch", 0, None, Some(desc))

\* An attempt is in flight: the operation was issued to node and has not answered.
InFlight == pc = "await"
\* The term of the leader hint.
LocalTerm == Unwrap(leader_state)[2]
\* The nodes of a replica list.
NodesOf(reps) == {reps[i].node_id : i \in 1..Len(reps)}
\* The replica the cursor points at.
AtCursor(c) == c.replicas[(c.next_access_index % Len(c.replicas)) + 1]

\* C1: a Transport failure of a call that is not a Get or a Scan and was not
\* issued with ignore_transport_error ends the call with the Transport error,
\* whether or not the deadline has passed; no further attempt is made.
WriteClass ==
    /\ ~opt.ignore_transport_error
    /\ (opt.request = None \/ Unwrap(opt.request).kind \notin {"Get", "Scan"})
C1_TransportSurfacedOnWrite ==
    (InFlight /\ WriteClass) =>
        \A late \in BOOLEAN :
            LET r == Outcome(StTransport, late)
            IN  r.pc = "done" /\ r.result = Some(Error("Transport"))
C1_Witness ==
    /\ pc = "done"
    /\ result = Some(Error("Transport"))
    /\ opt.request # None
    /\ Unwrap(opt.request).kind = "Write"
    /\ ~opt.ignore_transport_error

\* C2: a Transport failure of a Get or a Scan issued through request() is
\* recovered: the sticky node is cleared, the Transport error is not returned
\* (the call goes on, or ends with DeadlineExceeded when the deadline has
\* passed), and the next attempt goes to the replica at the cursor when that
\* replica can be reached.
ReadOnlyRequest ==
    /\ opt.request # None
    /\ Unwrap(opt.request).kind \in {"Get", "Scan"}
    /\ ~opt.ignore_transport_error
AccurateApis ==
    {"transfer_leader", "accept_shard", "split_shard", "merge_shard", "acquire_shard",
     "forward"}
C3_AccurateEpochSurfaces ==
    /\ \A a \in Apis : OptOf(a).accurate_epoch <=> a \in AccurateApis
    /\ (InFlight /\ opt.accurate_epoch) =>
            \A d \in GroupDescs, late \in BOOLEAN :
                LET r == Outcome(StEpochNotMatch(d), late)
                IN  /\ r.pc = "done"
                    /\ r.result = Some(EpochNotMatch(d))
                    /\ r.c.epoch = epoch
                    /\ r.c.replicas = replicas
                    /\ r.c.leader_state = leader_state
C3_Witness ==
    /\ pc = "done"
    /\ opt.accurate_epoch
    /\ result # None
    /\ Unwrap(result).kind = "EpochNotMatch"
    /\ Unwrap(Unwrap(result).desc).epoch > epoch

\* C4: the epoch of the client never decreases, in any step of any call, and
\* the adoption of a reported descriptor strictly increases it.
C4_EpochMonotonic ==
    [][/\ epoch' >= epoch
       /\ (pc = "await" /\ last' = "adopted") => epoch' > epoch]_vars
C4_Witness ==
    /\ pc = "done"
    /\ result = Some(Error("Ok"))
    /\ epoch > 1

\* C5 as claimed: a NotLeader whose term is not above the term of the leader
\* hint leaves the whole state of the client, access_node_id included, as it was.
StaleNotLeaders ==
    IF leader_state = None THEN {}
    ELSE {StNotLeader(t, Some(l)) : t \in 1..LocalTerm, l \in Replicas}
C5_StaleNotLeaderChangesNothing ==
    InFlight =>
        \A s \in StaleNotLeaders, late \in BOOLEAN : Outcome(s, late).c = Self
\* C5 as amended: such a NotLeader leaves the leader hint, the replicas and their
\* order, the epoch and next_access_index as they were and clears
\* access_node_id, so that the next attempt follows the rotation.
C5_StaleNotLeaderOnlyClearsSticky ==
    InFlight =>
        \A s \in StaleNotLeaders, late \in BOOLEAN :
            LET r == Outcome(s, late)
            IN  /\ access_node_id # None
                /\ r.c = [Self EXCEPT !.access_node_id = None]
                /\ r.pc = (IF deadline # None /\ late THEN "done" ELSE "select")
C5_Witness ==
    /\ pc = "select"
    /\ last = "stale_leader"
    /\ leader_state # None
    /\ access_node_id = None

\* C6 as claimed: a call makes at most |replicas| + 1 attempts.
C6_AttemptsBounded == attempts <= Len(replicas) + 1
\* C6 as amended: a call in which no attempt reuses the sticky node and no
\* reported descriptor is adopted makes at most |replicas| + 1 attempts.
C6_RotationAttemptsBounded ==
    (~latched /\ ~adopted) => attempts <= Len(replicas) + 1
C6_Witness ==
    /\ pc = "done"
    /\ ~latched
    /\ ~adopted
    /\ attempts = Len(replicas) + 1

\* C7 as claimed: a call that returns successfully has contacted at most
\* |replicas| + 1 distinct nodes.
Succeeded == pc = "done" /\ result = Some(Error("Ok"))
C7_ContactedBounded ==
    Succeeded => Cardinality(contacted) <= Len(replicas) + 1
\* C7 as amended: a call that returns successfully and adopted no reported
\* descriptor has contacted at most |replicas| + 1 distinct nodes.
C7_ContactedBoundedWithoutAdoption ==
    (Succeeded /\ ~adopted) => Cardinality(contacted) <= Len(replicas) + 1
C7_Witness ==
    /\ Succeeded
    /\ ~adopted
    /\ Cardinality(contacted) = Len(replicas) + 1

\* The keys a request references.
KeysOf(request) ==
    CASE request.kind \in {"Get", "CommitIntent", "ClearIntent"} -> {request.user_key}
      [] request.kind = "Write" ->
           {request.deletes[i] : i \in 1..Len(request.deletes)}
           \cup {request.puts[i] : i \in 1..Len(request.puts)}
      [] request.kind = "WriteIntent" /\ request.write # None ->
           {Unwrap(request.write).key}
      [] OTHER -> {}
\* The shard the call targets no longer contains a key of the request in desc.
KeyGone(desc) ==
    /\ opt.request # None
    /\ \E key \in KeysOf(Unwrap(opt.request)) :
          ~\E i \in 1..Len(desc.shards) :
              /\ desc.shards[i].id = Unwrap(opt.request).shard_id
              /\ belong_to(desc.shards[i], key)
\* EpochNotMatch is returned only under accurate_epoch or for a request that is
\* not executable in the reported descriptor.
EpochNotMatchOnlyWhenDue ==
    \A s \in Statuses, late \in BOOLEAN :
        LET r == Outcome(s, late)
        IN  (r.result # None /\ Unwrap(r.result).kind = "EpochNotMatch") =>
                \/ opt.accurate_epoch
                \/ /\ opt.request # None
                   /\ ~is_executable(Unwrap(Unwrap(r.result).desc), Unwrap(opt.request))

\* C8 as claimed: EpochNotMatch is returned only under accurate_epoch or for a
\* request not executable in the reported descriptor; and whenever the targeted
\* shard no longer contains the key of the request in the reported descriptor,
\* EpochNotMatch(desc) is returned and epoch and replicas are not replaced.
C8_KeyGoneSurfaces ==
    InFlight =>
        /\ EpochNotMatchOnlyWhenDue
        /\ \A d \in GroupDescs, late \in BOOLEAN :
              LET r == Outcome(StEpochNotMatch(d), late)
              IN  KeyGone(d) =>
                      /\ r.result = Some(EpochNotMatch(d))
                      /\ r.c.epoch = epoch
                      /\ r.c.replicas = replicas
\* C8 as amended: the same, with EpochNotMatch(desc) returned for a key that is
\* gone when accurate_epoch holds or desc.epoch is above the epoch of the client;
\* for a descriptor that is not newer the client aborts instead of returning.
\* Epoch and replicas are not replaced in either case.
C8_KeyGoneSurfacesWhenNewer ==
    InFlight =>
        /\ EpochNotMatchOnlyWhenDue
        /\ \A d \in GroupDescs, late \in BOOLEAN :
              LET r == Outcome(StEpochNotMatch(d), late)
              IN  KeyGone(d) =>
                      /\ IF opt.accurate_epoch \/ d.epoch > epoch
                         THEN r.pc = "done" /\ r.result = Some(EpochNotMatch(d))
                         ELSE r.pc = "panicked" /\ r.result = None
                      /\ r.c.epoch = epoch
                      /\ r.c.replicas = replicas
C8_Witness ==
    /\ pc = "done"
    /\ ~opt.accurate_epoch
    /\ result # None
    /\ Unwrap(result).kind = "EpochNotMatch"
    /\ KeyGone(Unwrap(Unwrap(result).desc))
    /\ Unwrap(Unwrap(result).desc).epoch > epoch
    /\ Unwrap(Unwrap(result).desc).replicas # replicas

\* The descriptors C9 speaks of: newer than the client, received in a call
\* without accurate_epoch whose request is executable in them.
Adoptable ==
    IF opt.accurate_epoch \/ opt.request = None THEN {}
    ELSE {d \in GroupDescs : d.epoch > epoch /\ is_executable(d, Unwrap(opt.request))}
\* s holds the elements of t, each once.
IsReordering(s, t) ==
    /\ Len(s) = Len(t)
    /\ \A i \in 1..Len(t) : \E j \in 1..Len(s) : s[j] = t[i]
\* The adoption of d: its replicas and epoch are taken, the cursor is 1, the
\* sticky node is the contacted one, and the next attempt goes to that node
\* with the epoch of d.
Adopts(r, d) ==
    /\ IsReordering(r.c.replicas, d.replicas)
    /\ r.c.epoch = d.epoch
    /\ r.c.next_access_index = 1
    /\ r.c.leader_state = leader_state
    /\ r.c.access_node_id = node
    /\ r.pc = "select" =>
          /\ NextNode(r.c) = node
          /\ r.c.epoch = d.epoch

\* C9 as claimed: such a descriptor is adopted (replicas, epoch, cursor 1), the
\* contacted node is placed at index 0, and the very next attempt goes to the
\* same node with epoch = desc.epoch.
C9_AdoptAndRetrySameNode ==
    InFlight =>
        \A d \in Adoptable, late \in BOOLEAN :
            LET r == Outcome(StEpochNotMatch(d), late)
            IN  /\ Adopts(r, d)
                /\ r.c.replicas[1].node_id = Unwrap(node)
\* C9 as amended: the contacted node is placed at index 0 when it is the node of
\* a replica of desc; otherwise desc.replicas is adopted in the order reported.
\* In both cases the very next attempt goes to the contacted node with
\* epoch = desc.epoch.
C9_AdoptAndRetrySameNodeIfMember ==
    InFlight =>
        \A d \in Adoptable, late \in BOOLEAN :
            LET r == Outcome(StEpochNotMatch(d), late)
            IN  /\ Adopts(r, d)
                /\ IF Unwrap(node) \in NodesOf(d.replicas)
                   THEN r.c.replicas[1].node_id = Unwrap(node)
                   ELSE r.c.replicas = d.replicas
C9_Witness ==
    /\ pc = "select"
    /\ last = "adopted"
    /\ opt.request # None
    /\ next_access_index = 1
    /\ epoch > 1
    /\ access_node_id # None
    /\ replicas[1].node_id = Unwrap(access_node_id)
    /\ NextNode(Self) = access_node_id

\* The NotLeader answers C10 speaks of: they name a leader, with a term above
\* the term of the leader hint, or any term when there is no hint.
NewerNotLeaders ==
    {StNotLeader(t, Some(l)) :
        t \in {u \in 1..MaxTerm : leader_state = None \/ u > LocalTerm}, l \in Replicas}
\* What C10 and its amendment share: the hint and the sticky node.
TakesLeader(r, s) ==
    /\ r.c.leader_state = Some(<<Unwrap(s.leader).id, s.term>>)
    /\ r.c.access_node_id = Some(Unwrap(s.leader).node_id)
    /\ r.c.epoch = epoch
    /\ r.c.next_access_index = next_access_index

\* C10 as claimed: the hint becomes (leader.id, term), the leader is at index 0
\* of replicas, access_node_id is the node of the leader and the next attempt
\* goes to that node.
C10_NewLeaderIsNext ==
    InFlight =>
        \A s \in NewerNotLeaders, late \in BOOLEAN :
            LET r == Outcome(s, late)
            IN  /\ TakesLeader(r, s)
                /\ r.c.replicas[1] = Unwrap(s.leader)
                /\ r.pc = "select" => NextNode(r.c) = Some(Unwrap(s.leader).node_id)
\* C10 as amended: the replica at index 0 is the one on the node of the leader
\* (the descriptor of the leader itself when no replica of the list was on that
\* node), and the next attempt goes to the node of the leader when a transport
\* to it can be obtained.
C10_NewLeaderNodeIsNext ==
    InFlight =>
        \A s \in NewerNotLeaders, late \in BOOLEAN :
            LET r == Outcome(s, late)
                leader == Unwrap(s.leader)
            IN  /\ TakesLeader(r, s)
                /\ r.c.replicas[1].node_id = leader.node_id
                /\ leader.node_id \notin NodesOf(replicas) => r.c.replicas[1] = leader
                /\ (r.pc = "select" /\ leader.node_id \notin unreachable)
                   => NextNode(r.c) = Some(leader.node_id)
C10_Witness ==
    /\ pc = "select"
    /\ last = "new_leader"
    /\ leader_state # None
    /\ access_node_id # None
    /\ replicas[1].id = Unwrap(leader_state)[1]
    /\ replicas[1].node_id = Unwrap(access_node_id)
    /\ NextNode(Self) = access_node_id

\* C11: an attempt that fails with CasFailed, InvalidArgument, TxnConflict or a
\* status the classifier does not recognise (Internal) ends the call with that
\* same error, whether or not the deadline has passed, and leaves the epoch, the
\* leader hint, the replicas and access_node_id of the client as they were.
SurfacedKinds == {"CasFailed", "InvalidArgument", "TxnConflict", "Internal"}
C11_BusinessErrorsSurface ==
    InFlight =>
        \A k \in SurfacedKinds, late \in BOOLEAN :
            LET r == Outcome(Status(k, 0, None, None), late)
            IN  /\ r.pc = "done"
                /\ r.result = Some(Error(k))
                /\ r.c = Self
C11_Witness ==
    /\ pc = "done"
    /\ result # None
    /\ Unwrap(result).kind \in SurfacedKinds
    /\ access_node_id # None
    /\ epoch >= 1

\* The statuses C12 speaks of, what a call has returned, and a call that has
\* no replica left to try.
RoutingKinds == {"NotLeader", "GroupNotFound", "Connect", "Transport"}
ReturnedKind == IF pc = "done" /\ result # None THEN Unwrap(result).kind ELSE "none"
Exhausted == pc = "select" /\ Len(replicas) > 0 /\ NextNode(Self) = None
ExhaustionIsGroupNotAccessable ==
    Exhausted => (pc' = "done" /\ result' = Some(Error("GroupNotAccessable")))

\* C12 as claimed: no call returns NotLeader, GroupNotFound, Connect or
\* Transport; after each of them the call continues (the deadline, when there
\* is one, not having passed); a call with no replica left returns
\* GroupNotAccessable.
C12_RoutingStatusesNeverReturned ==
    [][/\ ReturnedKind' \notin RoutingKinds
       /\ InFlight =>
            \A s \in Statuses :
                s.kind \in RoutingKinds => Outcome(s, FALSE).pc = "select"
       /\ ExhaustionIsGroupNotAccessable]_vars
\* C12 as amended: no call returns NotLeader, GroupNotFound or Connect, and
\* Transport is returned only by a call that is neither a Get or Scan request
\* nor made with ignore_transport_error; after every other such status the call
\* continues, or ends with DeadlineExceeded when its deadline has passed; a call
\* with no replica left returns GroupNotAccessable.
C12_OnlyWriteTransportReturned ==
    [][/\ ReturnedKind' \notin {"NotLeader", "GroupNotFound", "Connect"}
       /\ ReturnedKind' = "Transport" => WriteClass'
       /\ InFlight =>
            \A s \in Statuses, late \in BOOLEAN :
                s.kind \in RoutingKinds =>
                    LET r == Outcome(s, late)
                    IN  IF s.kind = "Transport" /\ WriteClass
                        THEN r.pc = "done" /\ r.result = Some(Error("Transport"))
                        ELSE IF deadline # None /\ late
                        THEN r.pc = "done" /\ r.result = Some(Error("DeadlineExceeded"))
                        ELSE r.pc = "select"
       /\ ExhaustionIsGroupNotAccessable]_vars
C12_Witness ==
    /\ pc = "done"
    /\ result = Some(Error("GroupNotAccessable"))
    /\ unreachable = {}
    /\ epoch >= 1
    /\ access_node_id = None
    /\ next_access_index = Len(replicas) + 1

\* The call has returned GroupNotAccessable on a client whose state is loaded.
NotAccessableLoaded ==
    /\ pc = "done"
    /\ result = Some(Error("GroupNotAccessable"))
    /\ epoch # 0

\* C13 as claimed: a call on a loaded client returns GroupNotAccessable only
\* after every replica of the list it returns with has been picked by
\* recommend_client at least once in that call.
C13_NotAccessableAfterAllSelected ==
    NotAccessableLoaded => NodesOf(replicas) \subseteq selected
\* The same for the calls that adopted no reported descriptor.
C13_NotAccessableAfterAllSelectedNoAdoption ==
    (NotAccessableLoaded /\ ~adopted) => NodesOf(replicas) \subseteq selected
C13_Witness ==
    /\ NotAccessableLoaded
    /\ ~adopted
    /\ Len(replicas) >= 2
    /\ NodesOf(replicas) \subseteq selected
    /\ unreachable # Nodes

\* A step that enters a call, and what the load of the state of g leaves.
CallStarts == pc = "idle" /\ pc' # "idle"
LoadedFrom(g) ==
    /\ epoch' = g.epoch
    /\ epoch' # 0
    /\ leader_state' = g.leader_state
    /\ Len(replicas') = Cardinality(g.replicas)
    /\ {replicas'[i] : i \in 1..Len(replicas')} = g.replicas
    /\ access_node_id' = None
    /\ next_access_index' = 0

\* C14: the epoch of a client is 0 exactly when it is as lazy() made it (no
\* state loaded); a call on such a client either loads the state the Router
\* holds before any attempt is issued, or, the Router holding none, returns
\* GroupNotAccessable with no attempt issued and the client left unloaded; a
\* call on a loaded client does not load; every attempt carries a loaded epoch.
C14_LazyLoadOnFirstCall ==
    [][/\ (epoch = 0) <=> (Self = lazy)
       /\ (epoch' = 0) <=> (Self' = lazy)
       /\ initial_group_state(lazy, None, <<>>) = None
       /\ CallStarts =>
            IF epoch = 0
            THEN \/ /\ pc' = "done"
                    /\ result' = Some(Error("GroupNotAccessable"))
                    /\ node' = None /\ ctx' = None
                    /\ UNCHANGED client_vars
                 \/ /\ pc' = "select"
                    /\ node' = None /\ ctx' = None
                    /\ \E g \in RouterGroupStates : LoadedFrom(g)
            ELSE /\ pc' = "select"
                 /\ UNCHANGED <<epoch, leader_state, replicas>>
       /\ pc' = "await" => (epoch' # 0 /\ Unwrap(ctx').epoch = epoch')]_vars
C14_Witness ==
    /\ pc = "done"
    /\ result = Some(Error("GroupNotAccessable"))
    /\ Self = lazy
    /\ ctx = None

\* C15 as claimed: a call takes the timeout set before it as its deadline, and
\* from the moment a call is entered until it has returned the timeout is
\* unset, so that the call after it has no deadline unless set_timeout is
\* called in between.
C15_TimeoutConsumedByNextCall ==
    [][/\ (CallStarts /\ pc' = "select") => deadline' = timeout
       /\ pc' # "idle" => timeout' = None]_vars
\* The same for the calls that get past the load of the group state.
C15_TimeoutConsumedOnceLoaded ==
    [][/\ (CallStarts /\ pc' = "select") => deadline' = timeout
       /\ (pc' # "idle" /\ epoch' # 0) => timeout' = None]_vars
C15_Witness ==
    /\ pc = "done"
    /\ deadline # None
    /\ timeout = None
    /\ epoch # 0

\* The answers after which the call would go on, the deadline left aside.
RecoveredStatuses == {s \in Statuses : Outcome(s, FALSE).pc = "select"}
StOk == Status("Ok", 0, None, None)

\* C16 as claimed: in a call with a deadline, an attempt that succeeded or
\* failed with a recovered status is followed by DeadlineExceeded when the
\* deadline has passed.
C16_DeadlineAfterEveryAttempt ==
    (InFlight /\ deadline # None) =>
        \A s \in RecoveredStatuses \cup {StOk} :
            LET r == Outcome(s, TRUE)
            IN  r.pc = "done" /\ r.result = Some(Error("DeadlineExceeded"))
\* C16 as amended: in a call with a deadline, an attempt that failed with a
\* recovered status is followed by DeadlineExceeded when the deadline has
\* passed, the recovery having been applied to the client; an attempt that
\* succeeded returns its result although the deadline has passed.  A call
\* without a deadline never returns DeadlineExceeded.
C16_DeadlineAfterRecoveredAttempt ==
    InFlight =>
        /\ deadline # None =>
            /\ \A s \in RecoveredStatuses :
                  LET r == Outcome(s, TRUE)
                  IN  /\ r.pc = "done"
                      /\ r.result = Some(Error("DeadlineExceeded"))
                      /\ r.c = Outcome(s, FALSE).c
            /\ Outcome(StOk, TRUE).pc = "done"
            /\ Outcome(StOk, TRUE).result = Some(Error("Ok"))
        /\ deadline = None =>
            \A s \in Statuses : Outcome(s, TRUE) = Outcome(s, FALSE)
C16_Witness ==
    /\ pc = "done"
    /\ deadline # None
    /\ result = Some(Error("DeadlineExceeded"))
    /\ last = "connect"
    /\ access_node_id = None

\* is_executable has been applied; its arguments and what it returned.
Evaluated == exec_out # None
EvalDesc == Unwrap(exec_desc)
EvalReq == Unwrap(exec_req)
EvalOut == Unwrap(exec_out)
\* The descriptor holds a shard with the shard_id of the request whose range
\* contains every key the request references.
ShardHoldsAllKeys(desc, request) ==
    \E i \in 1..Len(desc.shards) :
        /\ desc.shards[i].id = request.shard_id
        /\ \A k \in KeysOf(request) : belong_to(desc.shards[i], k)
KeyedKinds == {"Get", "Scan", "Write", "WriteIntent", "CommitIntent", "ClearIntent"}

\* C17 as claimed: for a Get, Scan, Write, WriteIntent, CommitIntent or
\* ClearIntent, is_executable is true exactly when the descriptor holds a shard
\* with the shard_id of the request whose range contains every key of the
\* request.
C17_ExecutableIffShardHoldsKeys ==
    (Evaluated /\ EvalReq.kind \in KeyedKinds) =>
        (EvalOut <=> ShardHoldsAllKeys(EvalDesc, EvalReq))
\* C17 as amended: that equivalence holds for Get, CommitIntent, ClearIntent,
\* a WriteIntent that carries a write and a Write with at least one key; a Scan
\* and a WriteIntent without a write are never executable, a Write without any
\* key always is, and no other request is executable.
C17_ExecutableIffShardHoldsKeysOfKeyed ==
    Evaluated =>
        CASE EvalReq.kind \in {"Get", "CommitIntent", "ClearIntent"} ->
               EvalOut <=> ShardHoldsAllKeys(EvalDesc, EvalReq)
          [] EvalReq.kind = "WriteIntent" /\ EvalReq.write # None ->
               EvalOut <=> ShardHoldsAllKeys(EvalDesc, EvalReq)
          [] EvalReq.kind = "Write" /\ KeysOf(EvalReq) # {} ->
               EvalOut <=> ShardHoldsAllKeys(EvalDesc, EvalReq)
          [] EvalReq.kind = "Write" /\ KeysOf(EvalReq) = {} -> EvalOut
          [] OTHER -> ~EvalOut
C17_Witness ==
    /\ Evaluated
    /\ EvalOut
    /\ EvalReq.kind = "WriteIntent"
    /\ EvalReq.shard_id = 10
    /\ Len(EvalDesc.shards) = 2
    /\ EvalDesc.shards[2].id = 10

\* The single-key check: whether the request for the one key is executable.
SingleKeyPasses(desc, shard_id, key) ==
    is_executable(desc, Req("Get", shard_id, key, <<>>, <<>>, NoWrite))

\* C18: a Write is executable in a descriptor exactly when each of its deletes
\* and each of its puts passes the single-key check against the shard_id of
\* the batch; one key that fails it makes the batch not executable.
C18_BatchIffEachKeyPasses ==
    (Evaluated /\ EvalReq.kind = "Write") =>
        /\ EvalOut <=>
            /\ \A i \in 1..Len(EvalReq.deletes) :
                  SingleKeyPasses(EvalDesc, EvalReq.shard_id, EvalReq.deletes[i])
            /\ \A i \in 1..Len(EvalReq.puts) :
                  SingleKeyPasses(EvalDesc, EvalReq.shard_id, EvalReq.puts[i])
        /\ (\E k \in KeysOf(EvalReq) : ~SingleKeyPasses(EvalDesc, EvalReq.shard_id, k))
           => ~EvalOut
C18_Witness ==
    /\ Evaluated
    /\ ~EvalOut
    /\ EvalReq.kind = "Write"
    /\ EvalReq.shard_id = 10
    /\ EvalReq.deletes = << <<1>> >>
    /\ EvalReq.puts = << <<1>>, <<2>> >>
    /\ EvalDesc.shards = ShardsSplit

\* The byte-lexicographic order, stated by the first position where two keys
\* differ: a is below b when a ends there and b does not, or a has the smaller
\* byte there.
LexLess(a, b) ==
    \E i \in 1..(Len(b)) :
        /\ \A j \in 1..(i - 1) : j <= Len(a) /\ a[j] = b[j]
        /\ (i > Len(a) \/ a[i] < b[i])
LexLeq(a, b) == a = b \/ LexLess(a, b)
\* The shard of the descriptor that has the shard_id of the request (shard ids
\* are unique in a descriptor).
EvalShards == {EvalDesc.shards[i] : i \in 1..Len(EvalDesc.shards)}
EvalTargets == {s \in EvalShards : s.id = EvalReq.shard_id}

\* C19: the key of a Get is contained in its shard exactly when it lies in the
\* half-open range [start, end) of the byte-lexicographic order, an empty end
\* standing for no bound: a key equal to start is contained, a key equal to a
\* non-empty end is not, and with an empty end every key from start on is.
C19_ContainmentHalfOpen ==
    (Evaluated /\ EvalReq.kind = "Get") =>
        /\ EvalTargets = {} => ~EvalOut
        /\ \A s \in EvalTargets :
              LET key == EvalReq.user_key
              IN  /\ EvalOut <=>
                        /\ LexLeq(s.start, key)
                        /\ (s.end = <<>> \/ LexLess(key, s.end))
                  /\ (key = s.start /\ (s.end = <<>> \/ LexLess(s.start, s.end)))
                     => EvalOut
                  /\ (s.end # <<>> /\ key = s.end) => ~EvalOut
                  /\ (s.end = <<>> /\ LexLeq(s.start, key)) => EvalOut
C19_Witness ==
    /\ Evaluated
    /\ ~EvalOut
    /\ EvalReq.kind = "Get"
    /\ EvalReq.user_key = <<2>>
    /\ \E s \in EvalTargets : s.start = <<1>> /\ s.end = <<2>>

\* The InvokeOpt of the operations C20 names: create_shard, add_replica,
\* add_learner and remove_group_replica (through invoke), move_out, and
\* move_replicas (through request).
OtherOperationOpts ==
    {OptOf(a) : a \in {"create_shard", "add_replica", "add_learner",
                       "remove_group_replica", "move_out"}}
    \cup {RequestOpt(r) : r \in {q \in Requests : q.kind = "MoveReplicas"}}

\* C20 as claimed: in a call of one of these operations an EpochNotMatch(desc)
\* with a newer descriptor is returned to the caller, and the descriptor is not
\* adopted.
C20_OtherOperationsNotRerouted ==
    (InFlight /\ opt \in OtherOperationOpts) =>
        \A d \in {g \in GroupDescs : g.epoch > epoch}, late \in BOOLEAN :
            LET r == Outcome(StEpochNotMatch(d), late)
            IN  /\ r.pc = "done"
                /\ r.result = Some(EpochNotMatch(d))
                /\ r.c.epoch = epoch
                /\ r.c.replicas = replicas

\* C21: in a call made without accurate_epoch, an EpochNotMatch(desc) with
\* desc.epoch <= epoch is fatal: the call panics, nothing is returned, no field
\* of the client changes, and this is so whether or not the request could be
\* executed against desc (the epochs are compared before is_executable is asked).
StaleDescs == {d \in GroupDescs : d.epoch <= epoch}
C21_StaleEpochIsFatal ==
    (InFlight /\ ~opt.accurate_epoch) =>
        \A d \in StaleDescs, late \in BOOLEAN :
            LET r == Outcome(StEpochNotMatch(d), late)
            IN  /\ r.pc = "panicked"
                /\ r.result = None
                /\ r.what = "panic"
                /\ r.c = Self
C21_Witness ==
    /\ pc = "panicked"
    /\ last = "panic"
    /\ ~opt.accurate_epoch
    /\ opt.request # None
    /\ \E d \in StaleDescs : ~is_executable(d, Unwrap(opt.request))
    /\ \E d \in StaleDescs : is_executable(d, Unwrap(opt.request))

\* The client of the iteration has returned and the loop is at its match.
AtMatch == m_pc = "call" /\ pc = "done"
\* The operation returns Ok in this step.
ReturnsOk == m_result = None /\ m_result' = Some(Error("Ok"))

\* C22: in setup_migration, an EpochNotMatch of the client is returned as it is
\* in the step of the match, with no error handed to the RetryState and no
\* further iteration; every other error is handed to the RetryState, and when
\* the RetryState accepts it the next iteration is begun; Ok is returned in
\* exactly the steps where the client of the iteration returned Ok.
C22_SetupMigrationSurfacesEpochNotMatch ==
    [][m_api = Some("setup_migration") =>
        /\ AtMatch =>
             LET r == Unwrap(result)
             IN  CASE r.kind = "EpochNotMatch" ->
                        /\ m_pc' = "returned"
                        /\ m_result' = Some(r)
                        /\ m_err' = None
                        /\ m_iter' = m_iter
                   [] r.kind = "Ok" ->
                        m_pc' = "returned" /\ m_result' = Some(r)
                   [] OTHER ->
                        m_pc' = "retry" /\ m_err' = Some(r) /\ m_result' = None
        /\ m_pc = "retry" =>
             \/ m_pc' = "loop" /\ m_result' = None
             \/ m_pc' = "returned" /\ m_result' \in {m_err, Some(Error("DeadlineExceeded"))}
        /\ m_pc = "loop" => (m_pc' = "call" /\ m_iter' = m_iter + 1)
        /\ ReturnsOk <=> (AtMatch /\ result = Some(Error("Ok")))
    ]_vars
C22_Witness ==
    /\ m_api = Some("setup_migration")
    /\ m_pc = "returned"
    /\ m_iter = 2
    /\ m_result # None
    /\ Unwrap(m_result).kind = "EpochNotMatch"

\* C23: in commit_migration, pull_shard_chunk and forward, every error of the
\* client of an iteration, EpochNotMatch included, is handed to the RetryState
\* and none is returned in the step of the match; when the RetryState accepts
\* the error the next iteration is begun; Ok is returned in exactly the steps
\* where the client of the iteration returned Ok.
RetryAllApis == {"commit_migration", "pull_shard_chunk", "forward"}
C23_OtherLoopsRetryEveryError ==
    [][(m_api # None /\ Unwrap(m_api) \in RetryAllApis) =>
        /\ AtMatch =>
             LET r == Unwrap(result)
             IN  IF r.kind = "Ok"
                 THEN m_pc' = "returned" /\ m_result' = Some(r)
                 ELSE m_pc' = "retry" /\ m_err' = Some(r) /\ m_result' = None
        /\ m_pc = "retry" =>
             \/ m_pc' = "loop" /\ m_result' = None
             \/ m_pc' = "returned" /\ m_result' \in {m_err, Some(Error("DeadlineExceeded"))}
        /\ m_pc = "loop" => (m_pc' = "call" /\ m_iter' = m_iter + 1)
        /\ ReturnsOk <=> (AtMatch /\ result = Some(Error("Ok")))
    ]_vars
C23_Witness ==
    /\ m_api = Some("forward")
    /\ m_pc = "retry"
    /\ m_iter = 2
    /\ m_err # None
    /\ Unwrap(m_err).kind = "EpochNotMatch"

\* C24: every iteration of setup_migration, commit_migration and forward begins
\* by making a GroupClient as lazy() makes it (epoch 0, no leader hint, no
\* replicas, no sticky node, cursor 0, no timeout), and calls its operation on
\* that client: the call finds the client unloaded and either loads what the
\* Router holds or, the Router holding nothing, returns GroupNotAccessable; so
\* every attempt of an iteration carries an epoch loaded or adopted in this
\* iteration.  pull_shard_chunk makes a ShardClient per iteration and keeps no
\* GroupClient at all.
GroupClientApis == {"setup_migration", "commit_migration", "forward"}
C24_FreshClientPerIteration ==
    [][/\ (m_pc = "loop" /\ Unwrap(m_api) \in GroupClientApis) =>
            /\ m_pc' = "call"
            /\ pc' = "idle"
            /\ Self' = lazy
            /\ timeout' = None
       /\ (m_pc = "loop" /\ m_api = Some("pull_shard_chunk")) =>
            /\ Self = lazy
            /\ UNCHANGED client_vars
       /\ (m_pc = "call" /\ CallStarts) =>
            /\ Self = lazy
            /\ \/ /\ pc' = "done"
                  /\ result' = Some(Error("GroupNotAccessable"))
                  /\ UNCHANGED client_vars
               \/ /\ pc' = "select"
                  /\ \E g \in RouterGroupStates : LoadedFrom(g)
       /\ (m_pc = "call" /\ pc' = "await") =>
            (epoch' # 0 /\ Unwrap(ctx').epoch = epoch')]_vars
C24_Witness ==
    /\ m_pc = "call"
    /\ m_iter = 2
    /\ m_api = Some("commit_migration")
    /\ pc = "await"
    /\ epoch = 1
    /\ leader_state = None
    /\ access_node_id = Some(replicas[1].node_id)

\* The envelope carries a typed response.
Carries(resp) == resp.response # None /\ Unwrap(resp.response) # None

Polled == stream = "open" /\ pc = "idle" /\ item' # None /\ item' # item

\* C26: an attempt of watch_key that returns a stream ends the call, which
\* returns the stream with no further attempt and no change of the client; an
\* item the stream yields later reaches the consumer through group_response
\* and the check of its variant only: a status the stream fails with is
\* delivered as it is, an embedded error as a status carrying it, and in
\* neither case is an attempt made or a field of the client changed.
C26_StreamItemsNotRetried ==
    [][/\ (pc = "await" /\ last' = "ok") =>
            /\ pc' = "done"
            /\ result' = Some(Error("Ok"))
            /\ UNCHANGED client_vars
       /\ (pc = "done" /\ result = Some(Error("Ok"))) =>
            /\ pc' = "idle"
            /\ stream' = "open"
            /\ node' = None
            /\ UNCHANGED client_vars
       /\ (stream' = "open" /\ stream # "open") => (pc = "done" /\ result = Some(Error("Ok")))
       /\ Polled =>
            /\ UNCHANGED <<client_vars, call_vars, stream>>
            /\ \E x \in StreamItems :
                /\ item' = Some(Deliver(x))
                /\ ~x.ok => item' = Some(DecodedErr(Unwrap(x.status)))
                /\ (x.ok /\ ~Carries(Unwrap(x.envelope))
                         /\ Unwrap(x.envelope).error # None) =>
                      item' = Some(DecodedErr(TonicStatus("Unknown", "response",
                                   encode_to_vec(Unwrap(Unwrap(x.envelope).error)))))]_vars
C26_Witness ==
    /\ stream = "open"
    /\ pc = "idle"
    /\ leader_state = Some(<<1, 1>>)
    /\ item = Some(DecodedErr(TonicStatus("Unknown", "response",
                   encode_to_vec(Status("NotLeader", 1, Some(Replica(2, 2)), None)))))

\* The first attempt of the call is issued in this step.
FirstSelect == pc = "select" /\ attempts = 0 /\ pc' = "await"
\* The first attempt of the call answers Ok in this step.
FirstSucceeds == pc = "await" /\ attempts = 1 /\ last' = "ok"
\* The node of the first replica, from index 0 on, that a client can be got for.
FirstReachable(reps) ==
    LET I == {i \in 1..Len(reps) : reps[i].node_id \notin unreachable}
    IN  IF I = {} THEN None
        ELSE Some(reps[CHOOSE i \in I : \A j \in I : i <= j].node_id)

\* C27 as claimed: a call changes neither epoch, leader hint nor replicas up to
\* its first attempt, the first attempt goes to the node of replicas[0] when no
\* sticky node is set, and when it succeeds the call returns Ok after this one
\* attempt with the client as it was.
C27_FirstAttemptAtIndexZero ==
    [][/\ CallStarts => UNCHANGED <<epoch, leader_state, replicas>>
       /\ (FirstSelect /\ access_node_id = None) => node' = Some(replicas[1].node_id)
       /\ FirstSucceeds =>
            /\ pc' = "done"
            /\ result' = Some(Error("Ok"))
            /\ attempts' = 1
            /\ contacted' = {Unwrap(node)}
            /\ UNCHANGED <<epoch, leader_state, replicas>>]_vars

\* C27, corrected: a call on a loaded client changes neither epoch, leader hint
\* nor replicas up to its first attempt (a call on an unloaded one loads them
\* from the Router); the first attempt goes to the sticky node when one is set
\* and a client can be got for it, and otherwise to the node of the first
\* replica from index 0 on that a client can be got for, which is replicas[0]
\* when that one can be reached; when the first attempt succeeds the call
\* returns Ok after this one attempt, with epoch, leader hint and replicas as
\* they were when the attempt was issued.
C27_FirstAttemptAtFirstReachable ==
    [][/\ CallStarts =>
            IF epoch # 0 THEN UNCHANGED <<epoch, leader_state, replicas>>
            ELSE \/ pc' = "done" /\ UNCHANGED client_vars
                 \/ \E g \in RouterGroupStates : LoadedFrom(g)
       /\ FirstSelect =>
            /\ next_access_index = 0
            /\ node' = (IF access_node_id # None /\ fetch_client(Unwrap(access_node_id))
                        THEN access_node_id
                        ELSE FirstReachable(replicas))
            /\ replicas[1].node_id \notin unreachable =>
                 node' \in {access_node_id, Some(replicas[1].node_id)}
            /\ UNCHANGED <<epoch, leader_state, replicas>>
       /\ FirstSucceeds =>
            /\ pc' = "done"
            /\ result' = Some(Error("Ok"))
            /\ attempts' = 1
            /\ contacted' = {Unwrap(node)}
            /\ UNCHANGED <<epoch, leader_state, replicas>>]_vars
C27_Witness ==
    /\ pc = "done"
    /\ result = Some(Error("Ok"))
    /\ attempts = 1
    /\ latched = FALSE
    /\ Len(replicas) = 3
    /\ replicas[1].node_id \in unreachable
    /\ contacted = {replicas[2].node_id}

\* The answer is given in this step.
Answers == exec_out = None /\ exec_out' # None

LeaderFirst(c) ==
    c.leader_state # None =>
        (Len(c.replicas) > 0 /\ c.replicas[1].id = Unwrap(c.leader_state)[1])

\* C29 as claimed: in every reachable state, a leader hint (replica_id, term)
\* names the replica at index 0 of the replicas.
C29_LeaderHintAtIndexZero == LeaderFirst(Self)

\* C29, corrected: a client made by new or loaded by a call has the replica of
\* its leader hint first; a NotLeader that is taken sets the hint to the
\* reported leader and puts a replica of the node of that leader first (the
\* reported replica itself, unless the list held another replica of that
\* node); the adoption of a descriptor keeps the hint and replaces the
\* replicas, with the contacted node first when it is a member; no other step
\* changes the hint or the replicas.
C29_LeaderFirstUntilAdoption ==
    /\ LeaderFirst(Self)
    /\ [][/\ (CallStarts /\ epoch = 0) => LeaderFirst(Self')
          /\ (CallStarts /\ epoch # 0) => UNCHANGED <<leader_state, replicas>>
          /\ pc \notin {"idle", "await"} => UNCHANGED <<leader_state, replicas>>
          /\ (pc = "await" /\ last' = "new_leader") =>
                \E l \in Replicas, t \in 1..MaxTerm :
                    /\ leader_state' = Some(<<l.id, t>>)
                    /\ access_node_id' = Some(l.node_id)
                    /\ replicas'[1].node_id = l.node_id
                    /\ l.node_id \notin NodesOf(replicas) => replicas'[1] = l
                    /\ NodesOf(replicas') = NodesOf(replicas) \cup {l.node_id}
          /\ (pc = "await" /\ last' = "adopted") =>
                /\ UNCHANGED leader_state
                /\ \E d \in GroupDescs :
                    /\ d.epoch = epoch'
                    /\ IsReordering(replicas', d.replicas)
                /\ Unwrap(node) \in NodesOf(replicas') => replicas'[1].node_id = Unwrap(node)
          /\ (pc = "await" /\ last' \notin {"new_leader", "adopted"}) =>
                UNCHANGED <<leader_state, replicas>>]_vars
C29_Witness ==
    /\ pc = "select"
    /\ last = "adopted"
    /\ leader_state = Some(<<1, 1>>)
    /\ replicas = <<Replica(3, 3)>>

\* The index into the replicas was computed modulo an empty list.
ModuloEmpty == pc = "panicked" /\ last = "none" /\ Len(replicas) = 0

\* C30: a loaded client has at least one replica in every reachable state, the
\* states after an adoption included, and no selection computes an index
\* modulo an empty list.
C30_ReplicasNonEmpty ==
    /\ (epoch # 0 => Len(replicas) > 0)
    /\ ~ModuloEmpty

\* The cursor is exhausted and no sticky node is set, at the head of the loop.
CursorExhausted ==
    pc = "select" /\ access_node_id = None /\ next_access_index > Len(replicas)

\* C31 as claimed: in every reachable state next_access_index <= replicas.len().
C31_CursorBoundedByLen == next_access_index <= Len(replicas)

\* C31, corrected: in every reachable state next_access_index is at most
\* replicas.len() + 1, also after a NotLeader has added a replica and after an
\* adoption has replaced the replicas; the cursor never moves back within a
\* call except to 1 by an adoption; and when the cursor is above replicas.len()
\* and no sticky node is set at the head of the loop, the call returns
\* GroupNotAccessable with no further attempt.
C31_CursorBoundedByLenPlusOne ==
    /\ next_access_index <= Len(replicas) + 1
    /\ [][/\ next_access_index' <= Len(replicas') + 1
          /\ (pc = "await" /\ last' = "adopted") => next_access_index' = 1
          /\ (pc = "await" /\ last' # "adopted") => UNCHANGED next_access_index
          /\ pc = "select" => next_access_index' >= next_access_index
          /\ CursorExhausted =>
                /\ pc' = "done"
                /\ result' = Some(Error("GroupNotAccessable"))
                /\ node' = None
                /\ UNCHANGED <<epoch, leader_state, replicas, next_access_index>>]_vars
C31_Witness ==
    /\ pc = "done"
    /\ result = Some(Error("GroupNotAccessable"))
    /\ Len(replicas) = 3
    /\ next_access_index = Len(replicas) + 1
    /\ epoch = MaxEpoch

\* The client after NotLeader(term, leader) was applied to it n times.
RECURSIVE NotLeaderTimes(_, _, _, _)
NotLeaderTimes(c, term, leader, n) ==
    IF n = 0 THEN c
    ELSE apply_not_leader_status(NotLeaderTimes(c, term, leader, n - 1), term, leader).c
\* The NotLeader statuses that name a leader.
NamedLeaders == {Some(r) : r \in Replicas}

\* C32 as claimed: the client after two or more applications of the same
\* NotLeader(term, L) is the client after one, access_node_id included.
C32_NotLeaderIdempotent ==
    \A t \in 1..MaxTerm, l \in NamedLeaders :
        /\ NotLeaderTimes(Self, t, l, 2) = NotLeaderTimes(Self, t, l, 1)
        /\ NotLeaderTimes(Self, t, l, 3) = NotLeaderTimes(Self, t, l, 1)

\* C32, corrected: the leader hint, the replicas and their order, the epoch
\* and the cursor after two or more applications of the same
\* NotLeader(term, L) are those after one; access_node_id is None after every
\* application but a first one that was taken (the term above the term of the
\* hint, or no hint), which leaves it at the node of L; from the second
\* application on the whole state repeats.
C32_NotLeaderIdempotentButSticky ==
    \A t \in 1..MaxTerm, l \in NamedLeaders :
        LET one == NotLeaderTimes(Self, t, l, 1)
            two == NotLeaderTimes(Self, t, l, 2)
            taken == leader_state = None \/ LocalTerm < t
        IN  /\ two = [one EXCEPT !.access_node_id = None]
            /\ NotLeaderTimes(Self, t, l, 3) = two
            /\ one.access_node_id = (IF taken THEN Some(Unwrap(l).node_id) ELSE None)
            /\ taken => (one.leader_state = Some(<<Unwrap(l).id, t>>)
                         /\ one.replicas[1].node_id = Unwrap(l).node_id)
C32_Witness ==
    /\ pc = "select"
    /\ last = "stale_leader"
    /\ access_node_id = None
    /\ leader_state = Some(<<3, MaxTerm>>)
    /\ replicas[1] = Replica(3, 3)
    /\ next_access_index = 1


\* The descriptors of a newer epoch against which the request of the call can
\* be executed.
NewerExecutable ==
    {d \in GroupDescs :
        /\ d.epoch > epoch
        /\ (opt.request # None => is_executable(d, Unwrap(opt.request)))}
\* apply_epoch_not_match_status applied n times with the same descriptor; a
\* panic ends the sequence.
RECURSIVE EpochNotMatchTimes(_, _, _, _)
EpochNotMatchTimes(c, d, o, n) ==
    IF n = 1 THEN apply_epoch_not_match_status(c, d, o)
    ELSE LET r == EpochNotMatchTimes(c, d, o, n - 1)
         IN  IF r.out = "Panic" THEN r ELSE apply_epoch_not_match_status(r.c, d, o)

\* C33 as claimed: without accurate_epoch, an EpochNotMatch(desc) of a newer
\* epoch whose descriptor can execute the request leaves epoch = desc.epoch
\* however many times it is applied: each application returns Ok.
C33_AdoptionRepeatable ==
    (InFlight /\ ~opt.accurate_epoch) =>
        \A d \in NewerExecutable, n \in 1..3 :
            LET r == EpochNotMatchTimes(Self, d, opt, n)
            IN  r.out = "Ok" /\ r.c.epoch = d.epoch
\* C33 as amended: the first application returns Ok with epoch = desc.epoch,
\* replicas those of desc and the cursor at 1; the second application of the
\* same desc finds desc.epoch = epoch and is fatal, and it changes no field, so
\* that epoch is still desc.epoch.
C33_AdoptionOnceThenFatal ==
    (InFlight /\ ~opt.accurate_epoch) =>
        \A d \in NewerExecutable :
            LET one == EpochNotMatchTimes(Self, d, opt, 1)
                two == EpochNotMatchTimes(Self, d, opt, 2)
            IN  /\ one.out = "Ok"
                /\ one.c.epoch = d.epoch
                /\ NodesOf(one.c.replicas) = NodesOf(d.replicas)
                /\ one.c.next_access_index = 1
                /\ two.out = "Panic"
                /\ two.c = one.c
                /\ EpochNotMatchTimes(Self, d, opt, 3) = two
C33_Witness ==
    /\ pc = "panicked"
    /\ last = "panic"
    /\ adopted
    /\ ~opt.accurate_epoch
    /\ epoch = MaxEpoch
    /\ next_access_index = 1


\* The term of the leader hint of a client, 0 when it has none.
TermOf(c) == IF c.leader_state = None THEN 0 ELSE Unwrap(c.leader_state)[2]
\* The NotLeader statuses that name a leader, and all of them.
NamedNotLeaders == {s \in Statuses : s.kind = "NotLeader" /\ s.leader # None}
NotLeaders == {s \in Statuses : s.kind = "NotLeader"}
\* The statuses of a sequence applied one after the other.
RECURSIVE NotLeaderSeq(_, _)
NotLeaderSeq(c, seq) ==
    IF seq = <<>> THEN c
    ELSE NotLeaderSeq(apply_not_leader_status(c, Head(seq).term, Head(seq).leader).c,
                      Tail(seq))
\* The sets of at most MaxObserved statuses.
MaxObserved == 2
Observed == {S \in SUBSET NamedNotLeaders : Cardinality(S) \in 1..MaxObserved}
\* The highest of the terms of a set of statuses and of the hint of a client.
HighestTerm(c, S) ==
    CHOOSE t \in {TermOf(c)} \cup {s.term : s \in S} :
        \A u \in {TermOf(c)} \cup {s.term : s \in S} : u <= t

\* C34: the term of the leader hint never decreases when a NotLeader status is
\* applied, with or without a named leader; and a set of NotLeader(term, leader)
\* statuses applied to the same client state in any order leaves a hint whose
\* term is the highest of the terms of the statuses and of the hint the client
\* started with, so that two clients receiving them in different orders agree
\* on the term.
C34_TermMonotoneConvergent ==
    /\ \A s \in NotLeaders :
          LET r == apply_not_leader_status(Self, s.term, s.leader)
          IN  /\ TermOf(r.c) >= TermOf(Self)
              /\ r.c.leader_state # leader_state => TermOf(r.c) = s.term
    /\ InFlight =>
          \A S \in Observed : \A a \in Orders(S) :
              /\ TermOf(NotLeaderSeq(Self, a)) = HighestTerm(Self, S)
              /\ NotLeaderSeq(Self, a).leader_state # None
C34_Witness ==
    /\ pc = "select"
    /\ last = "stale_leader"
    /\ leader_state = Some(<<1, MaxTerm>>)
    /\ replicas[1] = Replica(1, 1)
    /\ access_node_id = None


\* The sticky node is set and a transport can be obtained for it.
StickyUsable == access_node_id # None /\ fetch_client(Unwrap(access_node_id))
\* What the loop body reports of the statuses that release the sticky node.
Releasing ==
    {"group_not_found", "connect", "transport", "no_leader", "stale_leader",
     "new_leader"}

\* C35: with access_node_id set and its transport obtainable, the attempt goes
\* to that node and the cursor stays; access_node_id is kept by a success, an
\* adopted EpochNotMatch and a returned error, and between calls, so that the
\* next call starts on it; it changes only when the attempt was answered
\* GroupNotFound, Connect, a retried Transport or NotLeader, or when no
\* transport is obtained for the node.
C35_StickyNode ==
    [][/\ (pc = "select" /\ StickyUsable) =>
             /\ pc' = "await"
             /\ node' = access_node_id
             /\ UNCHANGED <<access_node_id, next_access_index>>
       /\ (pc = "await" /\ last' \in {"ok", "adopted", "surfaced"}) =>
             /\ access_node_id # None
             /\ UNCHANGED access_node_id
       /\ (pc \in {"idle", "done"}) => UNCHANGED access_node_id
       /\ (access_node_id # None /\ access_node_id' # access_node_id) =>
             \/ pc = "await" /\ last' \in Releasing
             \/ pc = "select" /\ ~StickyUsable]_vars
C35_Witness ==
    /\ pc = "await"
    /\ calls = 1
    /\ next_access_index = 0
    /\ node = access_node_id
    /\ node = Some(2)
    /\ replicas[1].node_id = 1
    /\ unreachable = {}


\* The node of the replica at cursor position i.
NodeAt(i) == replicas[(i % Len(replicas)) + 1].node_id
\* A selection that has to consult the cursor: no sticky node, or none that a
\* client can be got for.
FromCursor == pc = "select" /\ ~StickyUsable
\* No client can be got for any replica.
NoReplicaResolvable == pc = "select" /\ NodesOf(replicas) \subseteq unreachable
\* The selection ends the call with GroupNotAccessable and issues no request.
EndsNotAccessable ==
    /\ pc' = "done"
    /\ result' = Some(Error("GroupNotAccessable"))
    /\ access_node_id' = None
    /\ node' = None
    /\ UNCHANGED <<attempts, contacted>>
\* What holds of every selection: the node an attempt goes to is one a client
\* was got for, and the replicas passed over on the way are those for which
\* none was got.
SkipsUnresolvable ==
    /\ pc' = "await" =>
          /\ Unwrap(node') \notin unreachable
          /\ access_node_id' = node'
          /\ contacted' = contacted \cup {Unwrap(node')}
    /\ (FromCursor /\ pc' = "await") =>
          /\ next_access_index' > next_access_index
          /\ node' = Some(NodeAt(next_access_index' - 1))
          /\ \A i \in next_access_index..(next_access_index' - 2) :
                NodeAt(i) \in unreachable
    /\ (FromCursor /\ pc' = "done") =>
          /\ EndsNotAccessable
          /\ \A i \in next_access_index..Len(replicas) : NodeAt(i) \in unreachable

\* C36 as claimed: no attempt goes to a node for which no client can be got,
\* such a replica is passed over with access_node_id cleared, and the first
\* selection of a call made when no client can be got for any replica ends the
\* call with GroupNotAccessable without a request having been issued.
C36_NoReplicaNoRequest ==
    /\ [](pc = "await" => Unwrap(node) \notin unreachable)
    /\ [](contacted \cap unreachable = {})
    /\ [][pc = "select" => SkipsUnresolvable]_vars
    /\ [][(NoReplicaResolvable /\ attempts = 0) => EndsNotAccessable]_vars
\* C36 as amended: the same, where the selection that ends the call is one
\* made when no client can be got for any replica nor for the sticky node.
C36_NoNodeNoRequest ==
    /\ [](pc = "await" => Unwrap(node) \notin unreachable)
    /\ [](contacted \cap unreachable = {})
    /\ [][pc = "select" => SkipsUnresolvable]_vars
    /\ [][(NoReplicaResolvable /\ ~StickyUsable) => EndsNotAccessable]_vars
C36_Witness ==
    /\ pc = "done"
    /\ result = Some(Error("GroupNotAccessable"))
    /\ attempts = 0
    /\ calls = 1
    /\ selected = {1, 2}
    /\ unreachable = Nodes
    /\ access_node_id = None


\* The context of the attempt in flight carries the group of the client and the
\* epoch the client has at the attempt.
ContextOfAttempt ==
    InFlight =>
        /\ ctx # None
        /\ Unwrap(ctx).group_id = GroupId
        /\ Unwrap(ctx).epoch = epoch

\* C37: every attempt is given an InvokeContext with the group_id of the
\* client, the epoch the client has at that attempt and the timeout of the
\* call; in a call for which a timeout was armed the context of each attempt
\* carries a timeout.
C37_ContextCarriesTimeout ==
    /\ ContextOfAttempt
    /\ (InFlight /\ deadline # None) => Unwrap(ctx).timeout # None


\* The statuses GroupNotFound and Connect.
ClearingStatuses == {Status(k, 0, None, None) : k \in {"GroupNotFound", "Connect"}}
\* The node of the first replica, from cursor position i up to the length of
\* the list, that a client can be got for (None: there is none).
FirstFromCursor(i) ==
    LET I == {j \in i..Len(replicas) : NodeAt(j) \notin unreachable}
    IN  IF I = {} THEN None
        ELSE Some(NodeAt(CHOOSE j \in I : \A k \in I : j <= k))
\* GroupNotFound and Connect clear access_node_id and change nothing else.
OnlyStickyCleared(r) ==
    /\ r.c = [Self EXCEPT !.access_node_id = None]
    /\ r.c.epoch = epoch
    /\ r.c.leader_state = leader_state
    /\ r.c.replicas = replicas
    /\ r.c.next_access_index = next_access_index
    /\ r.what \in {"group_not_found", "connect"}

\* C38 as claimed: an attempt answered GroupNotFound or Connect clears
\* access_node_id and changes nothing else of the client, and when the call
\* goes on with the cursor not past the list, the next attempt goes to the
\* replica at next_access_index modulo the number of replicas.
C38_NextAtCursor ==
    InFlight =>
        \A s \in ClearingStatuses, late \in BOOLEAN :
            LET r == Outcome(s, late)
            IN  /\ OnlyStickyCleared(r)
                /\ (r.pc = "select" /\ next_access_index <= Len(replicas)) =>
                      NextNode(r.c) = Some(NodeAt(next_access_index))
\* C38 as amended: an attempt answered GroupNotFound or Connect clears
\* access_node_id and changes nothing else of the client; the call ends with
\* DeadlineExceeded when its deadline has passed and goes on otherwise, and then
\* the next attempt goes to the first replica, from next_access_index (modulo
\* the number of replicas) up to the end of the cursor's range, that a client
\* can be got for; when there is none the call ends.
C38_NextAtFirstReachableFromCursor ==
    InFlight =>
        \A s \in ClearingStatuses, late \in BOOLEAN :
            LET r == Outcome(s, late)
            IN  /\ OnlyStickyCleared(r)
                /\ r.pc = (IF deadline # None /\ late THEN "done" ELSE "select")
                /\ r.pc = "done" => r.result = Some(Error("DeadlineExceeded"))
                /\ NextNode(r.c) = FirstFromCursor(next_access_index)
C38_Witness ==
    /\ pc = "select"
    /\ last \in {"group_not_found", "connect"}
    /\ access_node_id = None
    /\ next_access_index = 1
    /\ Len(replicas) = 3
    /\ NodeAt(1) \in unreachable
    /\ FirstFromCursor(1) = Some(NodeAt(2))


\* s is t in another order: position by position under a one-to-one mapping.
IsPermutation(s, t) ==
    /\ Len(s) = Len(t)
    /\ \E p \in [1..Len(s) -> 1..Len(s)] :
          /\ \A i, j \in 1..Len(s) : p[i] = p[j] => i = j
          /\ \A i \in 1..Len(s) : s[i] = t[p[i]]
\* A NotLeader of term t is taken by the client as it stands.
NewerTerm(t) == leader_state = None \/ LocalTerm < t

\* C39: a NotLeader of a newer term that names a leader on a node of no
\* replica of the list adds the leader: the list is then the former replicas
\* and the leader, the leader at index 0; when a replica of the list is on the
\* leader's node the list is only reordered, with that replica at index 0.
C39_LeaderSavedToReplicas ==
    \A t \in 1..MaxTerm, l \in Replicas :
        NewerTerm(t) =>
            LET after == apply_not_leader_status(Self, t, Some(l)).c.replicas
            IN  IF l.node_id \notin NodesOf(replicas)
                THEN /\ after[1] = l
                     /\ IsPermutation(after, Append(replicas, l))
                ELSE /\ IsPermutation(after, replicas)
                     /\ after[1].node_id = l.node_id
C39_Witness ==
    /\ last = "new_leader"
    /\ pc = "select"
    /\ Len(replicas) = 3
    /\ replicas[1] = Replica(3, 3)
    /\ access_node_id = Some(3)
    /\ leader_state = Some(<<3, 1>>)
    /\ epoch = 1


\* A call is under way.
Running == pc \in {"select", "await"}
\* What a call may return.
ReturnKinds ==
    {"Ok", "DeadlineExceeded", "GroupNotAccessable", "EpochNotMatch", "Transport"}
    \cup SurfacedKinds
\* The call has returned a success, a surfaced error, DeadlineExceeded or
\* GroupNotAccessable.
Returned == pc = "done" /\ result # None /\ Unwrap(result).kind \in ReturnKinds
\* The client has panicked: on an EpochNotMatch whose epoch is not above its
\* own, or on the selection of a replica from an empty list.
Aborted == pc = "panicked" /\ (last = "panic" \/ Len(replicas) = 0)

\* What bounds the attempts of a call: an answer after which the call goes on
\* has raised the epoch or the term of the leader hint or has cleared the sticky
\* node, and a selection made without a sticky node moves the cursor on, which
\* ends the call once it has passed the length of the list.
Progress ==
    /\ (pc = "await" /\ pc' = "select") =>
          \/ epoch' > epoch
          \/ TermOf([leader_state |-> leader_state']) > TermOf(Self)
          \/ access_node_id' = None
    /\ (pc = "select" /\ access_node_id = None /\ pc' = "await") =>
          next_access_index' > next_access_index
    /\ (pc = "select" /\ access_node_id = None /\ next_access_index > Len(replicas)) =>
          pc' = "done"

\* C40 as claimed: every call that is under way eventually returns a success,
\* a surfaced error, DeadlineExceeded or GroupNotAccessable, with or without a
\* timeout and whatever the answers; no call ends in another way.
C40_CallReturns ==
    /\ Running ~> Returned
    /\ [](pc # "panicked")
\* C40 as amended: every call that is under way eventually returns a success,
\* a surfaced error, DeadlineExceeded or GroupNotAccessable, or the client
\* panics; a call that has ended returned one of these, and a panic is that of
\* an EpochNotMatch whose epoch is not above the client's or that of a
\* selection from an empty replica list; every step of a call makes the
\* progress that bounds its attempts.
C40_CallReturnsOrAborts ==
    /\ Running ~> (Returned \/ Aborted)
    /\ [][Progress]_vars
    /\ [](pc = "done" => Returned)
    /\ [](pc = "panicked" => Aborted)
C40_Witness ==
    /\ pc = "done"
    /\ result = Some(Error("GroupNotAccessable"))
    /\ deadline = None
    /\ access_node_id = None
    /\ calls = 0
    /\ epoch = MaxEpoch
    /\ leader_state # None
    /\ LocalTerm = MaxTerm
    /\ next_access_index = Len(replicas) + 1
    /\ unreachable = {}

====
